---- MODULE Spec2Model ----
(***************************************************************************)
(* Model of the network-configuration parser (ingestion.py), the           *)
(* comparison engine (chat_logic.py) and the upload / dispatch logic of    *)
(* the front end (app.py).                                                 *)
(*                                                                         *)
(* Strings.  A Python str is modelled as a sequence of atoms.  An atom is  *)
(* a short piece of text (one word, one number, one punctuation or         *)
(* whitespace character) and the string is the concatenation of its atoms. *)
(* Every multi-character atom is purely alphanumeric, so a character class *)
(* of a regular expression either contains an atom or none of its          *)
(* characters.  No atom other than the ones listed in Infixes contains one *)
(* of the keywords the code searches for, and no keyword can be formed     *)
(* across an atom boundary.                                                *)
(***************************************************************************)
EXTENDS Integers, Sequences, FiniteSets, Bags, TLC

VARIABLES redactor, parser, vector_store, ingested, response, session

vars == <<redactor, parser, vector_store, ingested, response, session>>

-----------------------------------------------------------------------------
(* Python's None *)
None == "None"

(* Characters str.strip() / str.split() treat as whitespace. *)
Whitespace == {" ", "\t"}

(* str.lower(), atom by atom. *)
Lower(a) ==
  CASE a = "Hostname" -> "hostname"
    [] a = "VLANs"    -> "vlans"
    [] a = "Interfaces" -> "interfaces"
    [] a = "Routes"   -> "routes"
    [] a = "ACLs"     -> "acls"
    [] a = "QoS"      -> "qos"
    [] a = "Compare"  -> "compare"
    [] a = "REDACTED" -> "redacted"
    [] a = "Current"  -> "current"
    [] a = "Provide"  -> "provide"
    [] a = "Routing"  -> "routing"
    [] a = "Security" -> "security"
    [] a = "Golden"   -> "golden"
    [] a = "Candidate" -> "candidate"
    [] OTHER          -> a

LowerStr(s) == [i \in DOMAIN s |-> Lower(s[i])]

(* The searched keywords that occur inside a (lower-case) atom. *)
Infixes(a) ==
  CASE a = "vlans"      -> {"vlan"}
    [] a = "interfaces" -> {"interface"}
    [] a = "routes"     -> {"route"}
    [] a = "router"     -> {"route"}
    [] a = "acls"       -> {"acl"}
    [] OTHER            -> {a}

(* kw in s, for a keyword kw given as a sequence of atoms.  The first and  *)
(* last atom of the keyword may lie inside a longer atom of s.             *)
Contains(s, kw) ==
  \E i \in 1..(Len(s) - Len(kw) + 1) :
    \A j \in 1..Len(kw) :
      IF Len(kw) = 1 THEN kw[j] \in Infixes(s[i + j - 1])
                     ELSE kw[j] = s[i + j - 1]

RECURSIVE LStrip(_)
LStrip(s) == IF s # <<>> /\ Head(s) \in Whitespace THEN LStrip(Tail(s)) ELSE s

RECURSIVE RStrip(_)
RStrip(s) ==
  IF s # <<>> /\ s[Len(s)] \in Whitespace THEN RStrip(SubSeq(s, 1, Len(s) - 1)) ELSE s

(* str.strip() *)
Strip(s) == RStrip(LStrip(s))

RECURSIVE TakeWord(_)
TakeWord(s) ==
  IF s = <<>> \/ Head(s) \in Whitespace THEN <<>> ELSE <<Head(s)>> \o TakeWord(Tail(s))

(* s.split()[0] for a string with at least one non-whitespace character *)
FirstToken(s) == TakeWord(LStrip(s))

(* str.splitlines() *)
Abs(n) == IF n < 0 THEN 0 - n ELSE n

(* the newline of s nearest to its middle, s holding at least one *)
MiddleNewline(s) ==
  CHOOSE i \in DOMAIN s :
    /\ s[i] = "\n"
    /\ \A j \in DOMAIN s :
         s[j] = "\n" => \/ Abs(2 * j - Len(s)) > Abs(2 * i - Len(s))
                        \/ Abs(2 * j - Len(s)) = Abs(2 * i - Len(s)) /\ i <= j

(* s.split("\n"): the pieces before and after a newline are split alike *)
RECURSIVE SplitAt(_, _)
SplitAt(s, m) ==
  IF m = 0 THEN <<s>>
  ELSE SplitAt(SubSeq(s, 1, m - 1),
               IF \E i \in 1 .. m - 1 : s[i] = "\n"
               THEN MiddleNewline(SubSeq(s, 1, m - 1)) ELSE 0)
       \o SplitAt(SubSeq(s, m + 1, Len(s)),
                  IF \E i \in m + 1 .. Len(s) : s[i] = "\n"
                  THEN MiddleNewline(SubSeq(s, m + 1, Len(s))) ELSE 0)

SplitNewline(s) == SplitAt(s, IF \E i \in DOMAIN s : s[i] = "\n" THEN MiddleNewline(s) ELSE 0)

(* a newline that ends the text opens no further line *)
SplitLines(s) ==
  IF s = <<>> THEN <<>>
  ELSE IF s[Len(s)] = "\n" THEN SplitNewline(SubSeq(s, 1, Len(s) - 1))
  ELSE SplitNewline(s)

(* "\n".join(lines) *)
RECURSIVE JoinLines(_)
JoinLines(ls) ==
  IF ls = <<>> THEN <<>>
  ELSE IF Len(ls) = 1 THEN ls[1]
  ELSE JoinLines(SubSeq(ls, 1, Len(ls) \div 2))
       \o <<"\n">> \o JoinLines(SubSeq(ls, Len(ls) \div 2 + 1, Len(ls)))

-----------------------------------------------------------------------------
(* Redactor: SECRETS_PATTERNS and NetworkConfigParser._redact_line         *)

(* [a-zA-Z0-9] *)
AlNum ==
  {"5", "7", "10", "20", "hostname", "Hostname", "vlan", "VLANs", "vlans",
   "interface", "Interfaces", "interfaces", "router", "route", "Routes",
   "routes", "ospf", "acl", "ACLs", "acls", "security", "qos", "QoS",
   "key", "password", "secret", "snmp", "server", "community", "access",
   "list", "name", "logging", "REDACTED", "redacted", "x", "y", "Compare",
   "compare", "golden", "candidate", "everything", "Current",
   "configuration"}

(* [a-zA-Z0-9$] *)
AlNumDollar == AlNum \cup {"$"}

Masked == <<"[", "REDACTED", "]">>

(* One entry per (pattern, replacement) pair, in the order of the list:    *)
(* alts is the literal text before the token (one sequence per             *)
(* alternative), cls the character class of the token, glen the length of  *)
(* group 1 and tail the replacement text that follows \1.                  *)
SECRETS_PATTERNS == <<
  [alts |-> {<<"password", " ", "7", " ">>, <<"secret", " ", "7", " ">>},
   cls |-> AlNum, glen |-> 1, tail |-> <<" ", "7", " ">> \o Masked],
  [alts |-> {<<"password", " ", "5", " ">>, <<"secret", " ", "5", " ">>},
   cls |-> AlNumDollar, glen |-> 1, tail |-> <<" ", "5", " ">> \o Masked],
  [alts |-> {<<"snmp", "-", "server", " ", "community", " ">>},
   cls |-> AlNum, glen |-> 5, tail |-> <<" ">> \o Masked],
  [alts |-> {<<"key", " ">>},
   cls |-> AlNum, glen |-> 1, tail |-> <<" ">> \o Masked],
  [alts |-> {<<"key", " ", "7", " ">>},
   cls |-> AlNum, glen |-> 3, tail |-> <<" ">> \o Masked] >>

IsPrefixAt(s, i, lit) ==
  /\ i + Len(lit) - 1 <= Len(s)
  /\ \A j \in 1..Len(lit) : s[i + j - 1] = lit[j]

(* length of the longest run of atoms of cls that starts at position i *)
RECURSIVE RunLen(_, _, _)
RunLen(s, i, cls) ==
  IF i <= Len(s) /\ s[i] \in cls THEN 1 + RunLen(s, i + 1, cls) ELSE 0

(* the alternatives of pattern p that match s at position i *)
MatchingAlts(p, s, i) ==
  {lit \in p.alts : IsPrefixAt(s, i, lit) /\ RunLen(s, i + Len(lit), p.cls) >= 1}

(* re.sub(pattern, replacement, s): leftmost, non-overlapping matches,     *)
(* scanning from position i.                                               *)
RECURSIVE SubFrom(_, _, _)
SubFrom(p, s, i) ==
  IF i > Len(s) THEN <<>>
  ELSE LET m == MatchingAlts(p, s, i)
       IN IF m = {} THEN <<s[i]>> \o SubFrom(p, s, i + 1)
          ELSE LET lit == CHOOSE l \in m : TRUE
                   n   == Len(lit) + RunLen(s, i + Len(lit), p.cls)
               IN SubSeq(lit, 1, p.glen) \o p.tail \o SubFrom(p, s, i + n)

ReSub(p, s) == SubFrom(p, s, 1)

(* _redact_line stopping at the first rule that rewrote the line *)
RECURSIVE RedactFrom_FirstOnly(_, _, _, _)
RedactFrom_FirstOnly(pats, k, line, found) ==
  IF k > Len(pats) THEN [line |-> line, found |-> found]
  ELSE LET new_line == ReSub(pats[k], line)
       IN IF new_line # line THEN [line |-> new_line, found |-> TRUE]
                             ELSE RedactFrom_FirstOnly(pats, k + 1, line, found)

(* _redact_line: the rules are applied in order to the running line. *)
RECURSIVE RedactFrom(_, _, _, _)
RedactFrom(pats, k, line, found) ==
  IF k > Len(pats) THEN [line |-> line, found |-> found]
  ELSE LET new_line == ReSub(pats[k], line)
       IN IF new_line # line THEN RedactFrom(pats, k + 1, new_line, TRUE)
                             ELSE RedactFrom(pats, k + 1, line, found)

_redact_line(line) == RedactFrom(SECRETS_PATTERNS, 1, line, FALSE)

-----------------------------------------------------------------------------
(* Block parser: NetworkConfigParser                                       *)

(* _is_child *)
_is_child(line) == line # <<>> /\ (line[1] = " " \/ line[1] = "\t")

(* current_parent is None before the first header.  parse() only tests it *)
(* for truth, and None and the empty str are both false.                  *)
NoParent == <<>>

(* Python truthiness of current_parent *)
Truthy(v) == v # NoParent

(* _commit_block keeping the header among the body lines *)
_commit_block_HeaderInBody(parent, lines, start, end, has_secret) ==
  [full_text   |-> JoinLines(lines),
   parent_line |-> parent,
   header_type |-> IF parent # <<>> THEN FirstToken(parent) ELSE <<"global">>,
   children    |-> lines,
   line_start  |-> start,
   line_end    |-> end,
   has_secret  |-> has_secret]

(* _commit_block counting the first line of the block from one *)
_commit_block_OneBased(parent, lines, start, end, has_secret) ==
  [full_text   |-> JoinLines(lines),
   parent_line |-> parent,
   header_type |-> IF parent # <<>> THEN FirstToken(parent) ELSE <<"global">>,
   children    |-> Tail(lines),
   line_start  |-> start + 1,
   line_end    |-> end,
   has_secret  |-> has_secret]

(* _commit_block: the ConfigBlock appended to self.blocks *)
_commit_block(parent, lines, start, end, has_secret) ==
  [full_text   |-> JoinLines(lines),
   parent_line |-> parent,
   header_type |-> IF parent # <<>> THEN FirstToken(parent) ELSE <<"global">>,
   children    |-> Tail(lines),
   line_start  |-> start,
   line_end    |-> end,
   has_secret  |-> has_secret]

(* The locals of parse() before the loop; blocks is self.blocks. *)
ParseStart(blocks) ==
  [current_block_lines |-> <<>>, current_parent |-> NoParent, block_start |-> 0,
   has_secret_in_block |-> FALSE, blocks |-> blocks]

(* the loop body with a blank or comment line closing the open block *)
ParseLine_SkipCloses(st, i, line) ==
  LET stripped == Strip(line)
  IN IF stripped = <<>> \/ stripped[1] = "!"
     THEN [current_block_lines |-> <<>>,
           current_parent      |-> NoParent,
           block_start         |-> i,
           has_secret_in_block |-> FALSE,
           blocks |-> IF Truthy(st.current_parent)
                      THEN Append(st.blocks,
                             _commit_block(st.current_parent, st.current_block_lines,
                                           st.block_start, i - 1, st.has_secret_in_block))
                      ELSE st.blocks]
     ELSE
       LET r    == _redact_line(line)
           sec  == st.has_secret_in_block \/ r.found
       IN IF ~ _is_child(line)
          THEN [current_block_lines |-> <<r.line>>,
                current_parent      |-> r.line,
                block_start         |-> i,
                has_secret_in_block |-> r.found,
                blocks |-> IF Truthy(st.current_parent)
                           THEN Append(st.blocks,
                                  _commit_block(st.current_parent, st.current_block_lines,
                                                st.block_start, i - 1, sec))
                           ELSE st.blocks]
          ELSE [st EXCEPT !.current_block_lines = Append(@, r.line),
                          !.has_secret_in_block = sec]

(* One iteration of the loop of parse() on line number i (zero-based). *)
ParseLine(st, i, line) ==
  LET stripped == Strip(line)
  IN IF stripped = <<>> \/ stripped[1] = "!" THEN st
     ELSE
       LET r    == _redact_line(line)
           sec  == st.has_secret_in_block \/ r.found
       IN IF ~ _is_child(line)
          THEN [current_block_lines |-> <<r.line>>,
                current_parent      |-> r.line,
                block_start         |-> i,
                has_secret_in_block |-> r.found,
                blocks |-> IF Truthy(st.current_parent)
                           THEN Append(st.blocks,
                                  _commit_block(st.current_parent, st.current_block_lines,
                                                st.block_start, i - 1, sec))
                           ELSE st.blocks]
          ELSE [st EXCEPT !.current_block_lines = Append(@, r.line),
                          !.has_secret_in_block = sec]

RECURSIVE ParseLoop(_, _, _)
ParseLoop(st, i, lines) ==
  IF i >= Len(lines) THEN st
  ELSE ParseLoop(ParseLine(st, i, lines[i + 1]), i + 1, lines)

(* parse(): the value of self.blocks when the call returns *)
parse(lines, blocks) ==
  LET st == ParseLoop(ParseStart(blocks), 0, lines)
  IN IF Truthy(st.current_parent)
     THEN Append(st.blocks,
            _commit_block(st.current_parent, st.current_block_lines,
                          st.block_start, Len(lines), st.has_secret_in_block))
     ELSE st.blocks

(* NetworkConfigParser.__init__ *)
NetworkConfigParser(content, filename) ==
  [raw_content |-> content, filename |-> filename,
   lines |-> SplitLines(content), blocks |-> <<>>, returned |-> <<>>]

-----------------------------------------------------------------------------
(* Metadata detector: NetworkConfigParser._detect_metadata                 *)

(* number of leading lines examined *)
MetaWindow == 50

StartsWith(s, pre) == IsPrefixAt(s, 1, pre)

(* s.split(sep)[1] for a string s that starts with sep: the text between   *)
(* the first and the second occurrence of sep.                             *)
SplitSecond(s, sep) ==
  LET rest == SubSeq(s, Len(sep) + 1, Len(s))
      occ  == {i \in DOMAIN rest : IsPrefixAt(rest, i, sep)}
  IN IF occ = {} THEN rest
     ELSE SubSeq(rest, 1, (CHOOSE i \in occ : \A j \in occ : i <= j) - 1)

(* the body of the loop of _detect_metadata on one line *)
DetectLine(meta, line) ==
  LET m1 == IF Contains(line, <<"Current", " ", "configuration", " ", ":">>)
            THEN [meta EXCEPT !.vendor = "cisco", !.os_family = "sugg_ios_xe"]
            ELSE meta
  IN IF StartsWith(line, <<"hostname", " ">>)
     THEN [m1 EXCEPT !.hostname = Strip(SplitSecond(line, <<"hostname", " ">>))]
     ELSE m1

(* "self.lines[:50]" holds a line numbered i, counted from one *)
InWindow_Whole(lines, i) == i <= Len(lines)

InWindow(lines, i) == i <= Len(lines) /\ i <= MetaWindow

(* "for line in self.lines[:50]", from the line numbered i on *)
RECURSIVE DetectFrom(_, _, _)
DetectFrom(meta, lines, i) ==
  IF ~ InWindow(lines, i) THEN meta
  ELSE DetectFrom(DetectLine(meta, lines[i]), lines, i + 1)

(* meta before the loop *)
MetaDefaults(filename) ==
  [vendor |-> "unknown", os_family |-> "unknown",
   hostname |-> <<"unknown">>, filename |-> filename]

_detect_metadata(lines, filename) == DetectFrom(MetaDefaults(filename), lines, 1)

-----------------------------------------------------------------------------
(* Ingestion: IngestionEngine.process_file                                 *)

(* file_path.split("/")[-1], for a path given as its "/"-separated parts *)
Basename(file_path) == file_path[Len(file_path)]

(* the Document of one block (step 3) *)
Document(block, file_meta, role) ==
  [page_content |-> block.full_text,
   metadata |-> [source       |-> file_meta.filename,
                 vendor       |-> file_meta.vendor,
                 hostname     |-> file_meta.hostname,
                 section_type |-> block.header_type,
                 line_start   |-> block.line_start,
                 line_end     |-> block.line_end,
                 has_secret   |-> block.has_secret,
                 parent_line  |-> block.parent_line,
                 config_role  |-> role]]

(* "for block in blocks": one Document per block, in block order *)
DocumentsOf(blocks, file_meta, role) ==
  [k \in DOMAIN blocks |-> Document(blocks[k], file_meta, role)]

(* The documents built from the blocks of one file (steps 2 and 3). *)
Documents(content, filename, role) ==
  DocumentsOf(parse(SplitLines(content), <<>>),
              _detect_metadata(SplitLines(content), filename), role)

-----------------------------------------------------------------------------
(* String order: Python compares str values code point by code point.      *)

Code(a) ==
  CASE a = " " -> <<32>>
    [] a = "\t" -> <<9>>
    [] a = "\n" -> <<10>>
    [] a = "!" -> <<33>>
    [] a = "$" -> <<36>>
    [] a = "-" -> <<45>>
    [] a = "[" -> <<91>>
    [] a = "]" -> <<93>>
    [] a = ":" -> <<58>>
    [] a = "5" -> <<53>>
    [] a = "7" -> <<55>>
    [] a = "10" -> <<49, 48>>
    [] a = "20" -> <<50, 48>>
    [] a = "hostname" -> <<104, 111, 115, 116, 110, 97, 109, 101>>
    [] a = "Hostname" -> <<72, 111, 115, 116, 110, 97, 109, 101>>
    [] a = "vlan" -> <<118, 108, 97, 110>>
    [] a = "VLANs" -> <<86, 76, 65, 78, 115>>
    [] a = "vlans" -> <<118, 108, 97, 110, 115>>
    [] a = "interface" -> <<105, 110, 116, 101, 114, 102, 97, 99, 101>>
    [] a = "Interfaces" -> <<73, 110, 116, 101, 114, 102, 97, 99, 101, 115>>
    [] a = "interfaces" -> <<105, 110, 116, 101, 114, 102, 97, 99, 101, 115>>
    [] a = "router" -> <<114, 111, 117, 116, 101, 114>>
    [] a = "route" -> <<114, 111, 117, 116, 101>>
    [] a = "Routes" -> <<82, 111, 117, 116, 101, 115>>
    [] a = "routes" -> <<114, 111, 117, 116, 101, 115>>
    [] a = "ospf" -> <<111, 115, 112, 102>>
    [] a = "acl" -> <<97, 99, 108>>
    [] a = "ACLs" -> <<65, 67, 76, 115>>
    [] a = "acls" -> <<97, 99, 108, 115>>
    [] a = "security" -> <<115, 101, 99, 117, 114, 105, 116, 121>>
    [] a = "qos" -> <<113, 111, 115>>
    [] a = "QoS" -> <<81, 111, 83>>
    [] a = "key" -> <<107, 101, 121>>
    [] a = "password" -> <<112, 97, 115, 115, 119, 111, 114, 100>>
    [] a = "secret" -> <<115, 101, 99, 114, 101, 116>>
    [] a = "snmp" -> <<115, 110, 109, 112>>
    [] a = "server" -> <<115, 101, 114, 118, 101, 114>>
    [] a = "community" -> <<99, 111, 109, 109, 117, 110, 105, 116, 121>>
    [] a = "access" -> <<97, 99, 99, 101, 115, 115>>
    [] a = "list" -> <<108, 105, 115, 116>>
    [] a = "name" -> <<110, 97, 109, 101>>
    [] a = "logging" -> <<108, 111, 103, 103, 105, 110, 103>>
    [] a = "REDACTED" -> <<82, 69, 68, 65, 67, 84, 69, 68>>
    [] a = "redacted" -> <<114, 101, 100, 97, 99, 116, 101, 100>>
    [] a = "x" -> <<120>>
    [] a = "y" -> <<121>>
    [] a = "Compare" -> <<67, 111, 109, 112, 97, 114, 101>>
    [] a = "compare" -> <<99, 111, 109, 112, 97, 114, 101>>
    [] a = "golden" -> <<103, 111, 108, 100, 101, 110>>
    [] a = "candidate" -> <<99, 97, 110, 100, 105, 100, 97, 116, 101>>
    [] a = "everything" -> <<101, 118, 101, 114, 121, 116, 104, 105, 110, 103>>
    [] a = "Current" -> <<67, 117, 114, 114, 101, 110, 116>>
    [] a = "configuration" -> <<99, 111, 110, 102, 105, 103, 117, 114, 97, 116, 105, 111, 110>>

RECURSIVE Codes(_)
Codes(s) == IF s = <<>> THEN <<>> ELSE Code(Head(s)) \o Codes(Tail(s))

RECURSIVE LexLess(_, _)
LexLess(u, v) ==
  IF v = <<>> THEN FALSE
  ELSE IF u = <<>> THEN TRUE
  ELSE IF Head(u) # Head(v) THEN Head(u) < Head(v)
  ELSE LexLess(Tail(u), Tail(v))

StrLess(s, t) == LexLess(Codes(s), Codes(t))

(* the strings of S in descending order *)
RECURSIVE sorted_Descending(_)
sorted_Descending(S) ==
  IF S = {} THEN <<>>
  ELSE LET m == CHOOSE x \in S : \A y \in S \ {x} : StrLess(y, x)
       IN <<m>> \o sorted_Descending(S \ {m})

(* sorted(S) for a set of strings *)
RECURSIVE sorted(_)
sorted(S) ==
  IF S = {} THEN <<>>
  ELSE LET m == CHOOSE x \in S : \A y \in S \ {x} : StrLess(x, y)
       IN <<m>> \o sorted(S \ {m})

-----------------------------------------------------------------------------
(* Comparison engine: RAGChatbot.compare_configs                           *)

(* k of both similarity_search calls *)
SearchK == 50

(* the filter on config_role alone, whatever file name is given *)
MatchesFilter_RoleOnly(doc, role, filename) == doc.metadata.config_role = role

(* filter_golden / filter_candidate applied to one stored document *)
MatchesFilter(doc, role, filename) ==
  /\ doc.metadata.config_role = role
  /\ (filename # None /\ filename # "") => doc.metadata.source = filename

(* by_parent keeping the first document of each parent_line *)
by_parent_FirstWins(docs) ==
  LET keys == {docs[i].metadata.parent_line : i \in DOMAIN docs}
      first(k) == CHOOSE i \in DOMAIN docs :
                    /\ docs[i].metadata.parent_line = k
                    /\ \A j \in DOMAIN docs : docs[j].metadata.parent_line = k => i <= j
  IN [k \in keys |-> [content      |-> Strip(docs[first(k)].page_content),
                      section_type |-> docs[first(k)].metadata.section_type]]

(* by_parent keeping page_content as it is, without strip() *)
by_parent_NoStrip(docs) ==
  LET keys == {docs[i].metadata.parent_line : i \in DOMAIN docs}
      last(k) == CHOOSE i \in DOMAIN docs :
                   /\ docs[i].metadata.parent_line = k
                   /\ \A j \in DOMAIN docs : docs[j].metadata.parent_line = k => j <= i
  IN [k \in keys |-> [content      |-> docs[last(k)].page_content,
                      section_type |-> docs[last(k)].metadata.section_type]]

(* golden_by_parent / candidate_by_parent: a later document with the same  *)
(* parent_line overwrites the entry of an earlier one.                     *)
by_parent(docs) ==
  LET keys == {docs[i].metadata.parent_line : i \in DOMAIN docs}
      last(k) == CHOOSE i \in DOMAIN docs :
                   /\ docs[i].metadata.parent_line = k
                   /\ \A j \in DOMAIN docs : docs[j].metadata.parent_line = k => j <= i
  IN [k \in keys |-> [content      |-> Strip(docs[last(k)].page_content),
                      section_type |-> docs[last(k)].metadata.section_type]]

(* the focus flags of a lower-cased query *)
FocusOf(q) ==
  [vlans      |-> Contains(q, <<"vlan">>),
   interfaces |-> Contains(q, <<"interface">>),
   routes     |-> Contains(q, <<"route">>) \/ Contains(q, <<"ospf">>),
   acls       |-> Contains(q, <<"acl">>) \/ Contains(q, <<"security">>),
   qos        |-> Contains(q, <<"qos">>)]

(* the focus flags parsed from the query *)
Focus(query) == FocusOf(LowerStr(query))

AnyFocus(f) == f.vlans \/ f.interfaces \/ f.routes \/ f.acls \/ f.qos

(* the hostname rule without its test of the query *)
SkipHostname_Always(parent, query) == Contains(LowerStr(parent), <<"hostname">>)

(* "Skip hostname unless explicitly requested" *)
SkipHostname(parent, query) ==
  Contains(LowerStr(parent), <<"hostname">>) /\ ~ Contains(LowerStr(query), <<"hostname">>)

(* section_type of a row: the golden entry's if there is one, else the     *)
(* candidate's.  An entry is a non-empty dict, so it is true when present. *)
RowSectionType(parent, g, c) ==
  IF parent \in DOMAIN g THEN g[parent].section_type
  ELSE IF parent \in DOMAIN c THEN c[parent].section_type
  ELSE <<"unknown">>

(* the focus filter applied even when no focus flag is set *)
SkipFocus_Unguarded(parent, section_type, f) ==
  ~ \/ (f.vlans /\ section_type = <<"vlan">>)
    \/ (f.interfaces /\ section_type = <<"interface">>)
    \/ (f.routes /\ section_type = <<"router">>)
    \/ (f.acls /\ Contains(LowerStr(parent), <<"access", "-", "list">>))
    \/ (f.qos /\ Contains(LowerStr(parent), <<"qos">>))

(* the focus filter looking for section type "route" instead of "router" *)
SkipFocus_Route(parent, section_type, f) ==
  LET skip == ~ \/ (f.vlans /\ section_type = <<"vlan">>)
                \/ (f.interfaces /\ section_type = <<"interface">>)
                \/ (f.routes /\ section_type = <<"route">>)
                \/ (f.acls /\ Contains(LowerStr(parent), <<"access", "-", "list">>))
                \/ (f.qos /\ Contains(LowerStr(parent), <<"qos">>))
  IN skip /\ AnyFocus(f)

(* "Skip if not in focus areas" *)
SkipFocus(parent, section_type, f) ==
  LET skip == ~ \/ (f.vlans /\ section_type = <<"vlan">>)
                \/ (f.interfaces /\ section_type = <<"interface">>)
                \/ (f.routes /\ section_type = <<"router">>)
                \/ (f.acls /\ Contains(LowerStr(parent), <<"access", "-", "list">>))
                \/ (f.qos /\ Contains(LowerStr(parent), <<"qos">>))
  IN skip /\ AnyFocus(f)

(* the status with the comparison of the two texts negated *)
Status_Negated(parent, g, c) ==
  IF parent \in DOMAIN g /\ parent \in DOMAIN c
  THEN IF g[parent].content # c[parent].content THEN "MATCH" ELSE "DIFF"
  ELSE IF parent \in DOMAIN g THEN "MISSING"
  ELSE IF parent \in DOMAIN c THEN "EXTRA"
  ELSE "none"

(* the status with MISSING and EXTRA exchanged *)
Status_Swapped(parent, g, c) ==
  IF parent \in DOMAIN g /\ parent \in DOMAIN c
  THEN IF g[parent].content = c[parent].content THEN "MATCH" ELSE "DIFF"
  ELSE IF parent \in DOMAIN g THEN "EXTRA"
  ELSE IF parent \in DOMAIN c THEN "MISSING"
  ELSE "none"

(* "Determine status" *)
Status(parent, g, c) ==
  IF parent \in DOMAIN g /\ parent \in DOMAIN c
  THEN IF g[parent].content = c[parent].content THEN "MATCH" ELSE "DIFF"
  ELSE IF parent \in DOMAIN g THEN "MISSING"
  ELSE IF parent \in DOMAIN c THEN "EXTRA"
  ELSE "none"

(* parent.replace('\n', ' / ') *)
RECURSIVE DisplayParent(_)
DisplayParent(parent) ==
  IF parent = <<>> THEN <<>>
  ELSE (IF Head(parent) = "\n" THEN <<" ", "/", " ">> ELSE <<Head(parent)>>)
       \o DisplayParent(Tail(parent))

(* one pass of the QUICK loop: the row appended for parent, if any *)
QuickRow(parent, g, c, query) ==
  IF SkipHostname(parent, query) THEN <<>>
  ELSE IF SkipFocus(parent, RowSectionType(parent, g, c), Focus(query)) THEN <<>>
  ELSE IF Status(parent, g, c) = "none" THEN <<>>
  ELSE <<[key |-> parent, display |-> DisplayParent(parent),
          status |-> Status(parent, g, c)]>>

(* the QUICK loop leaving at the first row that is not a MATCH *)
RECURSIVE QuickRows_UntilDiff(_, _, _, _)
QuickRows_UntilDiff(parents, g, c, query) ==
  IF parents = <<>> THEN <<>>
  ELSE IF QuickRow(Head(parents), g, c, query) # <<>>
          /\ Status(Head(parents), g, c) # "MATCH"
       THEN QuickRow(Head(parents), g, c, query)
       ELSE QuickRow(Head(parents), g, c, query)
            \o QuickRows_UntilDiff(Tail(parents), g, c, query)

(* the loop of QUICK mode over sorted(all_parents) *)
RECURSIVE QuickRows(_, _, _, _)
QuickRows(parents, g, c, query) ==
  IF parents = <<>> THEN <<>>
  ELSE QuickRow(Head(parents), g, c, query) \o QuickRows(Tail(parents), g, c, query)

(* the DEEP loop leaving the matching features out *)
DeepEntry_NoMatches(parent, g, c, status) ==
  IF Status(parent, g, c) # status \/ status = "MATCH" THEN <<>>
  ELSE <<[feature   |-> parent,
          golden    |-> IF parent \in DOMAIN g THEN g[parent].content ELSE <<>>,
          candidate |-> IF parent \in DOMAIN c THEN c[parent].content ELSE <<>>]>>

(* one pass of the DEEP loop: what parent adds to the bucket of status *)
DeepEntry(parent, g, c, status) ==
  IF Status(parent, g, c) # status THEN <<>>
  ELSE <<[feature   |-> parent,
          golden    |-> IF parent \in DOMAIN g THEN g[parent].content ELSE <<>>,
          candidate |-> IF parent \in DOMAIN c THEN c[parent].content ELSE <<>>]>>

(* the loop of DEEP mode: the entries of one bucket, in loop order *)
RECURSIVE DeepBucket(_, _, _, _)
DeepBucket(parents, g, c, status) ==
  IF parents = <<>> THEN <<>>
  ELSE DeepEntry(Head(parents), g, c, status) \o DeepBucket(Tail(parents), g, c, status)

(* f"Error generating comparison: {str(e)}" for the exception of a         *)
(* similarity_search and for the exception of self.llm.invoke              *)
SearchRaised == "Error generating comparison: search raised"

LlmRaised == "Error generating comparison: llm raised"

(* the dict of the except branch, with zero latency replaced by the        *)
(* measured time                                                           *)
ErrorResponse_Timed(what) ==
  [kind |-> "error", result |-> what, source_documents |-> <<>>,
   model |-> "model", latency |-> "elapsed"]

(* the dict returned by the except branch *)
ErrorResponse(what) ==
  [kind |-> "error", result |-> what, source_documents |-> <<>>,
   model |-> "model", latency |-> "0.0"]

(* the comparison asking the language model first, in both modes *)
CompareGrouped_LlmFirst(query, mode, docs_golden, docs_candidate, g, c, order, llm_ok, elapsed) ==
  IF ~ llm_ok THEN ErrorResponse(LlmRaised)
  ELSE IF mode = "quick"
  THEN [kind |-> "table",
        result |-> QuickRows(order, g, c, query),
        source_documents |-> docs_golden \o docs_candidate,
        model |-> "model (deterministic)", latency |-> elapsed]
  ELSE [kind |-> "narrative",
        result |-> "llm answer",
        buckets |-> [differences |-> DeepBucket(order, g, c, "DIFF"),
                     missing     |-> DeepBucket(order, g, c, "MISSING"),
                     extra       |-> DeepBucket(order, g, c, "EXTRA"),
                     matches     |-> DeepBucket(order, g, c, "MATCH"),
                     query       |-> query],
        source_documents |-> docs_golden \o docs_candidate,
        model |-> "model", latency |-> elapsed]

(* steps after the grouping: g and c are golden_by_parent and              *)
(* candidate_by_parent, order is sorted(all_parents)                       *)
CompareGrouped(query, mode, docs_golden, docs_candidate, g, c, order, llm_ok, elapsed) ==
  IF mode = "quick"
  THEN [kind |-> "table",
        result |-> QuickRows(order, g, c, query),
        source_documents |-> docs_golden \o docs_candidate,
        model |-> "model (deterministic)", latency |-> elapsed]
  ELSE IF llm_ok
  THEN [kind |-> "narrative",
        result |-> "llm answer",
        buckets |-> [differences |-> DeepBucket(order, g, c, "DIFF"),
                     missing     |-> DeepBucket(order, g, c, "MISSING"),
                     extra       |-> DeepBucket(order, g, c, "EXTRA"),
                     matches     |-> DeepBucket(order, g, c, "MATCH"),
                     query       |-> query],
        source_documents |-> docs_golden \o docs_candidate,
        model |-> "model", latency |-> elapsed]
  ELSE ErrorResponse(LlmRaised)

(* all_parents *)
AllParents(g, c) == DOMAIN g \cup DOMAIN c

(* the parent_line values of docs in the order of their first document *)
RECURSIVE ParentsInOrder(_)
ParentsInOrder(docs) ==
  IF docs = <<>> THEN <<>>
  ELSE LET rest == ParentsInOrder(SubSeq(docs, 1, Len(docs) - 1))
           p    == docs[Len(docs)].metadata.parent_line
       IN IF \E i \in DOMAIN rest : rest[i] = p THEN rest ELSE Append(rest, p)

(* compare_configs walking all_parents in retrieval order, unsorted *)
compare_configs_RetrievalOrder(query, mode, docs_golden, docs_candidate, llm_ok, elapsed) ==
  CompareGrouped(query, mode, docs_golden, docs_candidate,
                 by_parent(docs_golden), by_parent(docs_candidate),
                 ParentsInOrder(docs_golden \o docs_candidate),
                 llm_ok, elapsed)

(* compare_configs after both similarity_search calls have returned         *)
(* docs_golden and docs_candidate.  llm_ok tells whether self.llm.invoke    *)
(* returns or raises; elapsed is the measured wall-clock time.              *)
compare_configs(query, mode, docs_golden, docs_candidate, llm_ok, elapsed) ==
  CompareGrouped(query, mode, docs_golden, docs_candidate,
                 by_parent(docs_golden), by_parent(docs_candidate),
                 sorted(AllParents(by_parent(docs_golden), by_parent(docs_candidate))),
                 llm_ok, elapsed)

-----------------------------------------------------------------------------
(* Bounds and input pools                                                  *)

(* words per line handed to the redactor *)
MaxWords == 3

(* lines per parsed text *)
MaxLines == 3

(* parse() calls per parser instance *)
MaxParseCalls == 2

RECURSIVE SeqsUpTo(_, _)
SeqsUpTo(S, n) ==
  IF n = 0 THEN {<<>>}
  ELSE LET shorter == SeqsUpTo(S, n - 1)
       IN shorter \cup {Append(q, x) : q \in {r \in shorter : Len(r) = n - 1}, x \in S}

RECURSIVE JoinWith(_, _)
JoinWith(sep, ws) ==
  IF ws = <<>> THEN <<>>
  ELSE IF Len(ws) = 1 THEN ws[1]
  ELSE ws[1] \o sep \o JoinWith(sep, Tail(ws))

RedactWords ==
  {<<"key">>, <<"password">>, <<"secret">>, <<"7">>, <<"5">>, <<"x">>,
   <<"x", "$", "x">>, <<"x", "key">>, <<>>,
   <<"snmp", "-", "server", " ", "community">>, <<"[", "REDACTED", "]">>}

RedactLines == {JoinWith(<<" ">>, ws) : ws \in SeqsUpTo(RedactWords, MaxWords)}

ParseLinePool ==
  {<<"vlan", " ", "10">>, <<"hostname", " ", "x">>, <<"password", " ", "7", " ", "x">>,
   <<" ", "name", " ", "x">>, <<" ", "key", " ", "x">>,
   <<"!">>, <<" ", "!", " ", "x">>, <<" ">>, <<>>}

ParseContents == {JoinLines(ls) : ls \in SeqsUpTo(ParseLinePool, MaxLines)}

Instances == {1, 2}

Idle == [pc |-> "idle"]

-----------------------------------------------------------------------------
(* Redactor runs: a line is redacted, and the result is redacted again.    *)

InitRedact ==
  /\ \E l \in RedactLines : redactor = [pc |-> "start", line |-> l]
  /\ parser = Idle /\ vector_store = EmptyBag /\ ingested = Idle /\ response = Idle
  /\ session = Idle

RedactOnce ==
  /\ redactor.pc = "start"
  /\ redactor' = [pc |-> "once", line |-> redactor.line,
                  first |-> _redact_line(redactor.line)]
  /\ UNCHANGED <<parser, vector_store, ingested, response, session>>

RedactAgain ==
  /\ redactor.pc = "once"
  /\ redactor' = [pc |-> "twice", line |-> redactor.line, first |-> redactor.first,
                  second |-> _redact_line(redactor.first.line)]
  /\ UNCHANGED <<parser, vector_store, ingested, response, session>>

NextRedact == RedactOnce \/ RedactAgain

SpecRedact == InitRedact /\ [][NextRedact]_vars

-----------------------------------------------------------------------------
(* Parser runs: two parser instances are constructed from the same text    *)
(* and parse() is called on them.                                          *)

InitParse ==
  /\ \E c \in ParseContents :
       parser = [i \in Instances |-> NetworkConfigParser(c, "golden.cfg")]
  /\ redactor = Idle /\ vector_store = EmptyBag /\ ingested = Idle /\ response = Idle
  /\ session = Idle

(* parser i: blocks = self.parse() *)
Parse(i) ==
  /\ Len(parser[i].returned) < MaxParseCalls
  /\ LET blocks == parse(parser[i].lines, parser[i].blocks)
     IN parser' = [parser EXCEPT ![i].blocks = blocks,
                                 ![i].returned = Append(@, blocks)]
  /\ UNCHANGED <<redactor, vector_store, ingested, response, session>>

NextParse == \E i \in Instances : Parse(i)

SpecParse == InitParse /\ [][NextParse]_vars

-----------------------------------------------------------------------------
(* Engine runs: files are ingested with process_file and then compared     *)
(* with compare_configs, the way the repository's test scripts drive the   *)
(* bot.  The vector store keeps no order of its own, so it is a bag of     *)
(* documents.                                                              *)

Vlan10  == <<"vlan", " ", "10">>
Vlan20  == <<"vlan", " ", "20">>
NameX   == <<" ", "name", " ", "x">>
NameXsp == <<" ", "name", " ", "x", " ">>
NameY   == <<" ", "name", " ", "y">>

(* file contents offered to process_file *)
CmpContents ==
  {JoinLines(ls) : ls \in
    {<<<<"!">>>>,
     <<Vlan10, NameX>>, <<Vlan10, NameXsp>>, <<Vlan10, NameY>>,
     <<Vlan10, NameX, Vlan20>>, <<Vlan10, NameY, Vlan10, NameX>>,
     <<<<"hostname", " ", "qos">>, Vlan10, NameX>>,
     <<<<"Hostname", " ", "x">>, <<"logging", " ", "hostname">>>>,
     <<<<"interface", " ", "x">>, <<"router", " ", "x">>>>,
     <<<<"access", "-", "list", " ", "10">>, <<"qos", " ", "x">>>>,
     <<<<"name", " ", "qos">>, <<"vlan", " ", "access", "-", "list">>>>}}

(* contents of a file left in the store by an earlier run *)
DirtyContents ==
  {JoinLines(ls) : ls \in {<<Vlan10, NameY>>, <<<<"hostname", " ", "y">>>>}}

(* the files of a run: config_role, path and possible contents *)
CmpFiles ==
  {[role |-> "golden",    path |-> <<"golden.cfg">>,    contents |-> CmpContents],
   [role |-> "candidate", path |-> <<"candidate.cfg">>, contents |-> CmpContents],
   [role |-> "candidate", path |-> <<"dirty.cfg">>,     contents |-> DirtyContents]}

Queries ==
  {<<"Compare", " ", "everything">>,
   <<"Compare", " ", "vlan">>,
   <<"Compare", " ", "Hostname">>,
   <<"Compare", " ", "Interfaces", " ", "Routes", " ", "ACLs", " ", "QoS">>,
   <<"Compare", " ", "security", " ", "ospf", " ", "hostname">>}

Modes == {"quick", "deep"}

FilenameArgs == {<<None, None>>, <<"golden.cfg", "candidate.cfg">>}

RECURSIVE BagOfSeq(_)
BagOfSeq(docs) ==
  IF docs = <<>> THEN EmptyBag ELSE SetToBag({Head(docs)}) (+) BagOfSeq(Tail(docs))

(* every order in which the documents of bag B can be listed *)
RECURSIVE Arrangements(_)
Arrangements(B) ==
  IF BagToSet(B) = {} THEN {<<>>}
  ELSE UNION {{<<d>> \o r : r \in Arrangements(B (-) SetToBag({d}))} : d \in BagToSet(B)}

FirstK(q, k) == IF Len(q) <= k THEN q ELSE SubSeq(q, 1, k)

(* what similarity_search(query, k, filter) may return: the k documents    *)
(* nearest to the query among those that pass the filter, nearest first.   *)
(* The embedding decides the order, so every order is possible.            *)
Retrievals(store, role, filename) ==
  LET hits == {d \in BagToSet(store) : MatchesFilter(d, role, filename)}
      sub  == [d \in hits |-> store[d]]
  IN {FirstK(q, SearchK) : q \in Arrangements(sub)}

Init ==
  /\ vector_store = EmptyBag
  /\ ingested = [done |-> {}, read |-> <<>>]
  /\ response = Idle
  /\ redactor = Idle /\ parser = Idle /\ session = Idle

(* steps 4 and 5 run whether or not the file was read *)
IndexDocuments_IgnoreRead(store, documents, readable) ==
  IF documents # <<>>
  THEN [store |-> store (+) BagOfSeq(documents), returned |-> TRUE]
  ELSE [store |-> store, returned |-> FALSE]

(* process_file, steps 4 and 5: the documents are added to the store when   *)
(* the file was read and gave at least one                                  *)
IndexDocuments(store, documents, readable) ==
  IF ~ readable THEN [store |-> store, returned |-> FALSE]
  ELSE IF documents # <<>>
  THEN [store |-> store (+) BagOfSeq(documents), returned |-> TRUE]
  ELSE [store |-> store, returned |-> FALSE]

(* process_file: steps 1 (read), 4 and 5 (index); returns the new store    *)
(* and the return value                                                     *)
process_file(store, file_path, role, content, readable) ==
  IndexDocuments(store, Documents(content, Basename(file_path), role), readable)

(* bot.process_file(path, extra_metadata = {"config_role": role}) on a     *)
(* file that holds content, or that cannot be read                          *)
ProcessFile(f, content, readable) ==
  /\ response = Idle
  /\ <<f.role, f.path>> \notin ingested.done
  /\ LET r == process_file(vector_store, f.path, f.role, content, readable)
     IN /\ vector_store' = r.store
        /\ ingested' = [done |-> ingested.done \cup {<<f.role, f.path>>},
                        read |-> (<<f.role, f.path>> :> (IF readable THEN content ELSE None))
                                 @@ ingested.read,
                        returned |-> r.returned]
  /\ UNCHANGED <<redactor, parser, response, session>>

(* the record of one compare_configs call: its arguments, what the two     *)
(* searches returned, and the returned dict                                 *)
Call(query, gfn, cfn, mode, docs_golden, docs_candidate, ret) ==
  [query |-> query, golden_filename |-> gfn, candidate_filename |-> cfn,
   mode |-> mode, docs_golden |-> docs_golden, docs_candidate |-> docs_candidate,
   ret |-> ret]

(* bot.compare_configs(query, gfn, cfn, mode) *)
CompareConfigs(query, gfn, cfn, mode) ==
  /\ response = Idle
  /\ \E dg \in Retrievals(vector_store, "golden", gfn),
        dc \in Retrievals(vector_store, "candidate", cfn),
        llm_ok \in BOOLEAN :
       response' = Call(query, gfn, cfn, mode, dg, dc,
                        compare_configs(query, mode, dg, dc, llm_ok, "elapsed"))
  /\ UNCHANGED <<redactor, parser, vector_store, ingested, session>>

(* bot.compare_configs(...) when a similarity_search raises: the golden    *)
(* search, or the candidate search after the golden one has returned       *)
CompareConfigsRetrievalFails(query, gfn, cfn, mode) ==
  /\ response = Idle
  /\ \/ response' = Call(query, gfn, cfn, mode, <<>>, <<>>, ErrorResponse(SearchRaised))
     \/ \E dg \in Retrievals(vector_store, "golden", gfn) :
          response' = Call(query, gfn, cfn, mode, dg, <<>>, ErrorResponse(SearchRaised))
  /\ UNCHANGED <<redactor, parser, vector_store, ingested, session>>

Next ==
  \/ \E f \in CmpFiles, readable \in BOOLEAN : \E c \in f.contents :
       ProcessFile(f, c, readable)
  \/ \E q \in Queries, fn \in FilenameArgs, m \in Modes :
       CompareConfigs(q, fn[1], fn[2], m)
  \/ \E q \in Queries, fn \in FilenameArgs, m \in Modes :
       CompareConfigsRetrievalFails(q, fn[1], fn[2], m)

Spec == Init /\ [][Next]_vars

-----------------------------------------------------------------------------
(* Front end (app.py): the upload handlers, the compare buttons, the chat  *)
(* input and the response dispatch.  Streamlit runs the script from top to *)
(* bottom after every interaction; one action is one interaction together  *)
(* with the script runs it causes.                                         *)

NoFile == [name |-> None, bytes |-> <<>>]

(* utils.compute_file_hash: SHA-256, taken to be free of collisions *)
compute_file_hash(file_bytes) == <<"sha256">> \o file_bytes

(* utils.clean_filename on the names of UploadNames *)
clean_filename(filename) ==
  CASE filename = "a 1.cfg" -> "a_1.cfg"
    [] OTHER -> filename

(* f.read() with encoding utf-8, errors = "ignore" *)
Decode(file_bytes) == SelectSeq(file_bytes, LAMBDA b : b # "0xFF")

UploadNames == {"a 1.cfg", "b.cfg"}

UploadBytes ==
  [same |-> JoinLines(<<Vlan10, NameX>>), other |-> JoinLines(<<Vlan10, NameY>>),
   blank |-> JoinLines(<< <<"!">> >>)]

(* the same bytes under two names, two different files under one name, and *)
(* a file without any block                                                *)
UploadFiles ==
  {[name |-> "a 1.cfg", bytes |-> UploadBytes.same],
   [name |-> "b.cfg",   bytes |-> UploadBytes.same],
   [name |-> "b.cfg",   bytes |-> UploadBytes.other],
   [name |-> "b.cfg",   bytes |-> UploadBytes.blank]}

(* what the uploader block stores about an upload *)
Known(file) ==
  [name |-> file.name, filename_clean |-> clean_filename(file.name),
   hash |-> compute_file_hash(file.bytes)]

(* the branch "if success" and its else, r being what process_file gave *)
AfterIndexing(st, role, file, r) ==
  IF r.returned
  THEN [session |-> [st.session EXCEPT
                       !.processed[role] = @ \cup {compute_file_hash(file.bytes)},
                       !.known[role] = Known(file)],
        store |-> r.store]
  ELSE [session |-> st.session, store |-> r.store]

(* the uploader block of one role for the file in its widget; st is the    *)
(* pair of session state and vector store.  The block saves the upload     *)
(* under ./uploads and process_file reads it back at once: the text        *)
(* process_file gets is the decoded upload.                                *)
UploadBlock(st, role, file) ==
  IF file = NoFile THEN st
  ELSE IF compute_file_hash(file.bytes) \notin st.session.processed[role]
  THEN AfterIndexing(st, role, file,
         process_file(st.store, <<".", "uploads", clean_filename(file.name)>>, role,
                      Decode(file.bytes), TRUE))
  ELSE [session |-> [st.session EXCEPT !.known[role] = Known(file)], store |-> st.store]

(* the golden (role = "golden") or candidate uploader block of the script *)
UploadHandler(st, role) == UploadBlock(st, role, st.session.file[role])

(* both uploader blocks, golden first *)
RunUploaders(sess, store) ==
  UploadHandler(UploadHandler([session |-> sess, store |-> store], "golden"), "candidate")

Unknown == [name |-> None, filename_clean |-> None, hash |-> None]

(* the prompt of the "Deep Compare" button *)
DeepPrompt(candidate_name, golden_name) ==
  <<"Compare", " ", "candidate", " ", candidate_name, " ", "golden", " ", golden_name,
    " ", "Provide", " ", "a", " ", "detailed", " ", "analysis", " ", "Interfaces",
    " ", "Routing", " ", "Security", " ", "ACLs", " ", "QoS">>

(* the prompt of the "Quick Diff" button *)
QuickPrompt(candidate_name, golden_name) ==
  <<"Compare", " ", candidate_name, " ", golden_name, " ", "Golden", " ", "Candidate",
    " ", "VLANs", " ", "Interfaces", " ", "Routes", " ", "QoS", " ", "ACLs">>

(* prompts typed into the chat input *)
TypedPrompts ==
  {<<"Compare", " ", "golden", " ", "candidate">>, <<"vlan", " ", "x">>}

IdenticalResponse ==
  [kind |-> "identical", result |-> "Identical Configurations",
   source_documents |-> <<>>, model |-> "Deterministic Check", latency |-> "0.0"]

is_comparison(user_input) ==
  Contains(user_input, <<"Compare">>) /\ Contains(LowerStr(user_input), <<"golden">>)

comparison_mode(user_input) ==
  IF \/ Contains(LowerStr(user_input), <<"detailed", " ", "analysis">>)
     \/ Contains(LowerStr(user_input), <<"provide", " ", "a">>)
  THEN "deep" ELSE "quick"

InitApp ==
  /\ session = [file      |-> [r \in {"golden", "candidate"} |-> NoFile],
                processed |-> [r \in {"golden", "candidate"} |-> {}],
                known     |-> [r \in {"golden", "candidate"} |-> Unknown]]
  /\ vector_store = EmptyBag
  /\ response = Idle
  /\ redactor = Idle /\ parser = Idle /\ ingested = Idle

(* a script run that ends in the session and store st *)
Rerun(st) == session' = st.session /\ vector_store' = st.store

(* the user puts a file into an uploader, or takes the file out of it *)
SetFile(role, file) ==
  /\ response = Idle
  /\ session.file[role] # file
  /\ Rerun(RunUploaders([session EXCEPT !.file[role] = file], vector_store))
  /\ UNCHANGED <<redactor, parser, ingested, response>>

(* what the dispatch saw: the prompt, the uploaded files, the session's    *)
(* hashes; the compare_configs call it made, if any; and the response      *)
Dispatched(via, user_input, call, ret) ==
  [via |-> via, user_input |-> user_input,
   golden_file |-> session.file["golden"], candidate_file |-> session.file["candidate"],
   golden_hash |-> session.known["golden"].hash,
   candidate_hash |-> session.known["candidate"].hash,
   call |-> call, ret |-> ret]

NoCall == <<>>

(* a request answered by a compare_configs call that returned ret *)
Answered(via, query, gfn, cfn, mode, docs_golden, docs_candidate, ret) ==
  Dispatched(via, query, <<Call(query, gfn, cfn, mode, docs_golden, docs_candidate, ret)>>, ret)

(* the hash test without its two truthiness tests *)
SameHash_Unset(g_hash, c_hash) == g_hash = c_hash

(* "if g_hash and c_hash and g_hash == c_hash" *)
SameHash(g_hash, c_hash) == g_hash # None /\ c_hash # None /\ g_hash = c_hash

(* the else branch of the short circuit: the mode is chosen and            *)
(* compare_configs called with the session's clean filenames               *)
CompareVia(user_input, store, g_meta, c_meta, mode) ==
  \/ \E dg \in Retrievals(store, "golden", g_meta),
        dc \in Retrievals(store, "candidate", c_meta),
        llm_ok \in BOOLEAN :
        response' = Answered("dispatch", user_input, g_meta, c_meta, mode, dg, dc,
                             compare_configs(user_input, mode, dg, dc, llm_ok, "elapsed"))
  \/ response' = Answered("dispatch", user_input, g_meta, c_meta, mode, <<>>, <<>>,
                          ErrorResponse(SearchRaised))
  \/ \E dg \in Retrievals(store, "golden", g_meta) :
       response' = Answered("dispatch", user_input, g_meta, c_meta, mode, dg, <<>>,
                            ErrorResponse(SearchRaised))

(* chatbot.ask(user_input): the answer of the chain, or its error dict *)
Ask(user_input) ==
  \E ok \in BOOLEAN :
    response' = Dispatched("dispatch", user_input, NoCall,
      IF ok THEN [kind |-> "answer", result |-> "llm answer",
                  source_documents |-> <<>>, model |-> "model", latency |-> "elapsed"]
            ELSE ErrorResponse("Error generating response"))

(* "Logic to Handle Response Generation" for the user message user_input,  *)
(* st being the session and the store after both uploaders have run        *)
RespondIn(user_input, st) ==
  /\ Rerun(st)
  /\ IF is_comparison(user_input)
     THEN IF SameHash(st.session.known["golden"].hash, st.session.known["candidate"].hash)
          THEN response' = Dispatched("dispatch", user_input, NoCall, IdenticalResponse)
          ELSE CompareVia(user_input, st.store,
                          st.session.known["golden"].filename_clean,
                          st.session.known["candidate"].filename_clean,
                          comparison_mode(user_input))
     ELSE Ask(user_input)

(* the script run that answers the user message user_input *)
Respond(user_input) ==
  /\ response = Idle
  /\ RespondIn(user_input, RunUploaders(session, vector_store))
  /\ UNCHANGED <<redactor, parser, ingested>>

ButtonsEnabled == session.file["golden"] # NoFile /\ session.file["candidate"] # NoFile

NamesKnown == session.known["golden"].name # None /\ session.known["candidate"].name # None

(* the user clicks "Deep Compare" *)
ClickDeepCompare ==
  /\ ButtonsEnabled /\ NamesKnown
  /\ Respond(DeepPrompt(session.known["candidate"].name, session.known["golden"].name))

(* the user clicks "Quick Diff" *)
ClickQuickDiff ==
  /\ ButtonsEnabled /\ NamesKnown
  /\ Respond(QuickPrompt(session.known["candidate"].name, session.known["golden"].name))

(* the user types a prompt into the chat input *)
ChatInput(prompt) == Respond(prompt)

(* a script calls compare_configs on the bot directly, as the repository's *)
(* verify_*.py and test_*.py scripts do, leaving the filenames out or      *)
(* passing those of the uploaded files                                     *)
DirectCall(query, mode, gfn, cfn) ==
  \E dg \in Retrievals(vector_store, "golden", gfn),
     dc \in Retrievals(vector_store, "candidate", cfn),
     llm_ok \in BOOLEAN :
     response' = Answered("direct", query, gfn, cfn, mode, dg, dc,
                          compare_configs(query, mode, dg, dc, llm_ok, "elapsed"))

DirectCompare(query, mode, named) ==
  /\ response = Idle
  /\ DirectCall(query, mode,
                IF named THEN session.known["golden"].filename_clean ELSE None,
                IF named THEN session.known["candidate"].filename_clean ELSE None)
  /\ UNCHANGED <<redactor, parser, ingested, session, vector_store>>

NextApp ==
  \/ \E role \in {"golden", "candidate"}, f \in UploadFiles \cup {NoFile} : SetFile(role, f)
  \/ ClickDeepCompare
  \/ ClickQuickDiff
  \/ \E prompt \in TypedPrompts : ChatInput(prompt)
  \/ \E m \in Modes, named \in BOOLEAN :
       DirectCompare(<<"Compare", " ", "everything">>, m, named)

SpecApp == InitApp /\ [][NextApp]_vars

-----------------------------------------------------------------------------
(* What a finished compare_configs call shows                               *)

Called == "ret" \in DOMAIN response

Quick == Called /\ response.ret.kind = "table"

Deep == Called /\ response.ret.kind = "narrative"

KeysOf(docs) == {docs[i].metadata.parent_line : i \in DOMAIN docs}

GoldenKeys == KeysOf(response.docs_golden)

CandidateKeys == KeysOf(response.docs_candidate)

Universe == GoldenKeys \cup CandidateKeys

Rows == response.ret.result

RowCount(k) == Cardinality({i \in DOMAIN Rows : Rows[i].key = k})

RowKeys == {Rows[i].key : i \in DOMAIN Rows}

BucketKeys(b) == {b[i].feature : i \in DOMAIN b}

(* the (key, status) pairs a finished call reports *)
Reported ==
  IF Quick THEN {<<Rows[i].key, Rows[i].status>> : i \in DOMAIN Rows}
  ELSE IF Deep
  THEN {<<k, "DIFF">> : k \in BucketKeys(response.ret.buckets.differences)}
       \cup {<<k, "MISSING">> : k \in BucketKeys(response.ret.buckets.missing)}
       \cup {<<k, "EXTRA">> : k \in BucketKeys(response.ret.buckets.extra)}
       \cup {<<k, "MATCH">> : k \in BucketKeys(response.ret.buckets.matches)}
  ELSE {}

Statuses == {"MATCH", "DIFF", "MISSING", "EXTRA"}

(* the compared text of the documents of one side that carry key k *)
ContentsOf(docs, k) ==
  {Strip(docs[i].page_content) : i \in {j \in DOMAIN docs : docs[j].metadata.parent_line = k}}

RawOf(docs, k) ==
  {docs[i].page_content : i \in {j \in DOMAIN docs : docs[j].metadata.parent_line = k}}

NoFocus == ~ AnyFocus(Focus(response.query))

MentionsHostname == Contains(LowerStr(response.query), <<"hostname">>)

(* the key contains the text "hostname", in any letter case *)
HostnameInKey(k) == Contains(LowerStr(k), <<"hostname">>)

(* the key is the header of a hostname stanza *)
HostnameStanza(k) == LowerStr(FirstToken(k)) = <<"hostname">>

-----------------------------------------------------------------------------
(* C1: every key a comparison reports carries exactly one of the four      *)
(* statuses, and the status is the one its presence on the two sides        *)
(* calls for: MISSING when only golden documents carry the key, EXTRA when  *)
(* only candidate documents do, MATCH or DIFF when both do, according to    *)
(* whether the compared contents are equal.  In DEEP mode every key of the  *)
(* union is reported.                                                       *)
C1_Classification ==
  Called =>
    /\ \A r \in Reported :
         /\ r[1] \in Universe /\ r[2] \in Statuses
         /\ \A q \in Reported : q[1] = r[1] => q[2] = r[2]
         /\ r[2] = "MISSING" <=> (r[1] \in GoldenKeys /\ r[1] \notin CandidateKeys)
         /\ r[2] = "EXTRA" <=> (r[1] \notin GoldenKeys /\ r[1] \in CandidateKeys)
         /\ r[2] = "MATCH" =>
              ContentsOf(response.docs_golden, r[1])
                \cap ContentsOf(response.docs_candidate, r[1]) # {}
         /\ r[2] = "DIFF" =>
              \E a \in ContentsOf(response.docs_golden, r[1]),
                 b \in ContentsOf(response.docs_candidate, r[1]) : a # b
    /\ Deep => {r[1] : r \in Reported} = Universe

(* a DEEP comparison that reported a matching, a missing and an extra key *)
C1_Witness ==
  /\ Deep
  /\ {"MATCH", "MISSING", "EXTRA"} \subseteq {r[2] : r \in Reported}

-----------------------------------------------------------------------------
OnBothSidesOnce(k) ==
  /\ Cardinality({i \in DOMAIN response.docs_golden :
                    response.docs_golden[i].metadata.parent_line = k}) = 1
  /\ Cardinality({i \in DOMAIN response.docs_candidate :
                    response.docs_candidate[i].metadata.parent_line = k}) = 1

(* the hostname rule as the code applies it *)
DroppedForHostname(k) == HostnameInKey(k) /\ ~ MentionsHostname

C3_Original ==
  Called =>
    \A r \in Reported :
      (OnBothSidesOnce(r[1]) /\ RawOf(response.docs_golden, r[1])
                                 # RawOf(response.docs_candidate, r[1]))
        => r[2] = "DIFF"

(* C3, amended: MATCH is decided by equality of the two blocks' full_text  *)
(* after leading and trailing whitespace has been stripped from each; two  *)
(* blocks with the same parent_line are MATCH when the stripped texts are  *)
(* equal and DIFF when they are not.                                       *)
C3_StrippedEquality ==
  Called =>
    \A r \in Reported :
      OnBothSidesOnce(r[1]) =>
        /\ r[2] = "MATCH" <=> ContentsOf(response.docs_golden, r[1])
                                = ContentsOf(response.docs_candidate, r[1])
        /\ r[2] = "DIFF" <=> ContentsOf(response.docs_golden, r[1])
                               # ContentsOf(response.docs_candidate, r[1])

(* a key reported MATCH although the two full_text differ *)
C3_Witness ==
  /\ Called
  /\ \E r \in Reported :
       /\ OnBothSidesOnce(r[1]) /\ r[2] = "MATCH"
       /\ RawOf(response.docs_golden, r[1]) # RawOf(response.docs_candidate, r[1])

(* C8 as stated: with no focus flag set the QUICK table has one row for    *)
(* every key of the comparison universe.                                   *)
C8_Original ==
  (Quick /\ NoFocus) =>
    /\ RowKeys = Universe
    /\ Len(Rows) = Cardinality(Universe)

(* C8, amended: with no focus flag set the QUICK table has one row for     *)
(* every key of the universe except the keys that contain "hostname" when  *)
(* the query does not mention hostname; no other row is dropped.           *)
C8_Unrestricted ==
  (Quick /\ NoFocus) =>
    LET kept == {k \in Universe : ~ DroppedForHostname(k)}
    IN /\ RowKeys = kept
       /\ Len(Rows) = Cardinality(kept)

(* an unfocused QUICK comparison whose query mentions hostname and whose   *)
(* table has the row of a hostname key                                     *)
C8_Witness ==
  /\ Quick /\ NoFocus /\ MentionsHostname
  /\ \E k \in RowKeys : HostnameInKey(k)
  /\ Len(Rows) >= 2

SectionTypesOf(k) ==
  {d.metadata.section_type :
     d \in {response.docs_golden[i] : i \in {j \in DOMAIN response.docs_golden :
                response.docs_golden[j].metadata.parent_line = k}}
        \cup {response.docs_candidate[i] : i \in {j \in DOMAIN response.docs_candidate :
                response.docs_candidate[j].metadata.parent_line = k}}}

(* the row of key k matches a focus the query sets *)
InFocus(k) ==
  LET f == Focus(response.query)
  IN \/ f.vlans /\ <<"vlan">> \in SectionTypesOf(k)
     \/ f.interfaces /\ <<"interface">> \in SectionTypesOf(k)
     \/ f.routes /\ <<"router">> \in SectionTypesOf(k)
     \/ f.acls /\ Contains(LowerStr(k), <<"access", "-", "list">>)
     \/ f.qos /\ Contains(LowerStr(k), <<"qos">>)

FocusSet == ~ NoFocus

(* C9 as stated: with a focus flag set, a key has a row exactly when it    *)
(* matches an active focus.                                                *)
C9_Original ==
  (Quick /\ FocusSet) => \A k \in Universe : k \in RowKeys <=> InFocus(k)

(* C9, amended: with a focus flag set, a key has a row exactly when it     *)
(* matches an active focus and is not a key that contains "hostname" while *)
(* the query does not mention hostname; a query with only the vlan focus   *)
(* has no interface and no router row.                                     *)
C9_FocusFilter ==
  (Quick /\ FocusSet) =>
    /\ \A k \in Universe : k \in RowKeys <=> (InFocus(k) /\ ~ DroppedForHostname(k))
    /\ Focus(response.query) = [vlans |-> TRUE, interfaces |-> FALSE, routes |-> FALSE,
                                acls |-> FALSE, qos |-> FALSE]
         => \A k \in RowKeys : SectionTypesOf(k) \cap {<<"interface">>, <<"router">>} = {}

(* a QUICK comparison under the route focus that shows a router row and    *)
(* drops a key outside the focus                                           *)
C9_Witness ==
  /\ Quick /\ Focus(response.query).routes
  /\ \E k \in RowKeys : <<"router">> \in SectionTypesOf(k)
  /\ \E k \in Universe : k \notin RowKeys /\ ~ HostnameInKey(k)

(* C10 as stated: the hostname rule drops a row exactly when the row is    *)
(* the row of a hostname stanza and the query does not mention hostname.   *)
(* With no focus flag set the hostname rule is the only rule that drops.   *)
C10_HostnameRule ==
  (Quick /\ NoFocus) =>
    \A k \in Universe : k \notin RowKeys <=> (HostnameStanza(k) /\ ~ MentionsHostname)

-----------------------------------------------------------------------------
Skippable(line) == Strip(line) = <<>> \/ Strip(line)[1] = "!"

(* the redacted lines of a text that are neither blank nor comments *)
RECURSIVE KeptLines(_)
KeptLines(lines) ==
  IF lines = <<>> THEN <<>>
  ELSE (IF Skippable(Head(lines)) THEN <<>> ELSE <<_redact_line(Head(lines)).line>>)
       \o KeptLines(Tail(lines))

(* the lines of a sequence of blocks: each header followed by its body *)
RECURSIVE BlockLines(_)
BlockLines(blocks) ==
  IF blocks = <<>> THEN <<>>
  ELSE <<Head(blocks).parent_line>> \o Head(blocks).children \o BlockLines(Tail(blocks))

(* C4: the blocks of a first parse() hold every line that is neither blank *)
(* nor a comment exactly once, in source order.                            *)
C4_BlockCoverage ==
  \A i \in DOMAIN parser \cap Instances :
    Len(parser[i].returned) >= 1 =>
      BlockLines(parser[i].returned[1]) = KeptLines(parser[i].lines)

(* C5: every parse() of the same text returns the same blocks, on one      *)
(* parser instance or on two.                                              *)
C5_ParserDeterminism ==
  \A i, j \in DOMAIN parser \cap Instances :
    \A m \in DOMAIN parser[i].returned, n \in DOMAIN parser[j].returned :
      parser[i].returned[m] = parser[j].returned[n]

(* C6: redacting the result of a redaction returns it unchanged and        *)
(* reports no match.                                                       *)
C6_RedactionIdempotence ==
  redactor.pc = "twice" =>
    /\ redactor.second.line = redactor.first.line
    /\ redactor.second.found = FALSE

(* a line that the first redaction rewrote, redacted a second time *)
C6_Witness ==
  /\ redactor.pc = "twice"
  /\ redactor.first.found
  /\ redactor.first.line # redactor.line

-----------------------------------------------------------------------------
(* What a finished request of the front end shows *)

Requested == "via" \in DOMAIN response

ComparisonRequested ==
  /\ Requested
  /\ response.via = "direct" \/ is_comparison(response.user_input)

(* both uploaders hold a file and the two files have the same bytes *)
ByteIdentical ==
  /\ response.golden_file # NoFile
  /\ response.candidate_file # NoFile
  /\ response.golden_file.bytes = response.candidate_file.bytes

ShortCircuited == response.call = NoCall /\ response.ret = IdenticalResponse

(* both uploaded files were indexed in their role *)
BothIndexed ==
  /\ compute_file_hash(response.golden_file.bytes) \in session.processed["golden"]
  /\ compute_file_hash(response.candidate_file.bytes) \in session.processed["candidate"]

(* C7 as stated: a comparison of byte-identical golden and candidate files *)
(* returns the identical-configurations result without any retrieval, in   *)
(* both modes, on the dispatch path and on a direct compare_configs call.  *)
C7_Original ==
  ComparisonRequested /\ ByteIdentical => ShortCircuited

(* C7: on the dispatch path a comparison request returns the               *)
(* identical-configurations result without calling compare_configs exactly *)
(* when the session's golden_hash and candidate_hash are both set and      *)
(* equal, in both modes; byte-identical uploads that were both indexed are *)
(* such a case.  A direct compare_configs call always retrieves.           *)
C7_ShortCircuit ==
  ComparisonRequested =>
    /\ response.via = "dispatch" =>
         /\ ShortCircuited <=>
              /\ response.golden_hash # None
              /\ response.candidate_hash # None
              /\ response.golden_hash = response.candidate_hash
         /\ ByteIdentical /\ BothIndexed => ShortCircuited
    /\ response.via = "direct" =>
         /\ response.call # NoCall
         /\ response.ret # IdenticalResponse

(* the Deep Compare button pressed with the same indexed bytes uploaded    *)
(* under two names, answered by the short circuit                          *)
C7_Witness ==
  /\ ComparisonRequested
  /\ response.via = "dispatch"
  /\ comparison_mode(response.user_input) = "deep"
  /\ ByteIdentical /\ BothIndexed
  /\ response.golden_file.name # response.candidate_file.name
  /\ ShortCircuited

-----------------------------------------------------------------------------
(* DEEP buckets against the QUICK table of the same call                   *)

(* the keys of the four buckets of a DEEP answer *)
AllBucketKeys ==
  BucketKeys(response.ret.buckets.differences)
    \cup BucketKeys(response.ret.buckets.missing)
    \cup BucketKeys(response.ret.buckets.extra)
    \cup BucketKeys(response.ret.buckets.matches)

(* the table QUICK mode builds from the documents and the query of the call *)
QuickTableOfCall ==
  QuickRows(sorted(Universe), by_parent(response.docs_golden),
            by_parent(response.docs_candidate), response.query)

QuickKeysOfCall == {QuickTableOfCall[i].key : i \in DOMAIN QuickTableOfCall}

(* QUICK mode drops the row of key k *)
DroppedInQuick(k) == DroppedForHostname(k) \/ (FocusSet /\ ~ InFocus(k))

-----------------------------------------------------------------------------
(* QUICK mode and the language model                                       *)

(* what compare_configs returns in QUICK mode for the documents and the    *)
(* query of the call when self.llm.invoke would return (TRUE) or raise     *)
QuickAnswerOfCall(llm_ok) ==
  compare_configs(response.query, "quick", response.docs_golden,
                  response.docs_candidate, llm_ok, "elapsed")

(* C12: a QUICK call returns the table that compare_configs computes from  *)
(* the two retrieved sequences and the query alone: the same table whether *)
(* the language model would answer or fail, labelled deterministic, and a  *)
(* QUICK call ends in an error only when retrieval failed.                 *)
C12_QuickDeterministic ==
  Called /\ response.mode = "quick" =>
    /\ Quick =>
         /\ \A llm_ok \in BOOLEAN :
              /\ QuickAnswerOfCall(llm_ok).kind = "table"
              /\ QuickAnswerOfCall(llm_ok).result = Rows
         /\ response.ret.model = "model (deterministic)"
    /\ ~ Quick =>
         /\ response.ret.kind = "error"
         /\ response.ret.result = SearchRaised

(* a QUICK table with two rows of different status *)
C12_Witness ==
  /\ Quick
  /\ Cardinality(RowKeys) >= 2
  /\ Cardinality({Rows[i].status : i \in DOMAIN Rows}) >= 2

-----------------------------------------------------------------------------
(* Row order                                                               *)

(* the keys of a table or of a bucket, in the order of its rows *)
RowKeySeq(rows) == [i \in DOMAIN rows |-> rows[i].key]

BucketKeySeq(b) == [i \in DOMAIN b |-> b[i].feature]

(* each key is less than the next one, code point by code point *)
Ascending(keys) ==
  \A i, j \in DOMAIN keys : i < j => StrLess(keys[i], keys[j])

(* C13: the rows of a QUICK table, and the entries of each DEEP bucket,    *)
(* are in strictly ascending order of key (compared as Python compares     *)
(* strings), so no key has two rows.                                       *)
C13_RowOrder ==
  /\ Quick => Ascending(RowKeySeq(Rows))
  /\ Deep =>
       /\ Ascending(BucketKeySeq(response.ret.buckets.differences))
       /\ Ascending(BucketKeySeq(response.ret.buckets.missing))
       /\ Ascending(BucketKeySeq(response.ret.buckets.extra))
       /\ Ascending(BucketKeySeq(response.ret.buckets.matches))

(* a table of two rows whose keys differ in the case of the first letter,  *)
(* or a bucket of two entries                                              *)
C13_Witness ==
  \/ /\ Quick
     /\ Len(Rows) >= 2
     /\ \E i \in DOMAIN Rows : Rows[i].key = <<"Hostname", " ", "x">>
  \/ /\ Deep
     /\ Len(response.ret.buckets.missing) >= 2

-----------------------------------------------------------------------------
(* Documents that share a parent_line                                      *)

(* the positions of the documents of one side that carry key k *)
PositionsOf(docs, k) == {i \in DOMAIN docs : docs[i].metadata.parent_line = k}

(* of the documents of one side that carry key k, the one retrieved last *)
LastOf(docs, k) ==
  docs[CHOOSE i \in PositionsOf(docs, k) : \A j \in PositionsOf(docs, k) : j <= i]

(* key k is on both sides and its last documents have the same text once   *)
(* stripped                                                                *)
LastDocumentsAgree(k) ==
  Strip(LastOf(response.docs_golden, k).page_content)
    = Strip(LastOf(response.docs_candidate, k).page_content)

(* C14: when a side returns several documents with the same parent_line,   *)
(* the key is reported once and classified by the document that comes last *)
(* in the retrieved sequence of each side: MATCH when the two last         *)
(* documents agree, DIFF otherwise, and a DIFF entry of DEEP mode shows    *)
(* the texts of those two documents.                                       *)
C14_LastWins ==
  Quick \/ Deep =>
    /\ \A k \in GoldenKeys \cap CandidateKeys :
         /\ <<k, "MATCH">> \in Reported => LastDocumentsAgree(k)
         /\ <<k, "DIFF">> \in Reported => ~ LastDocumentsAgree(k)
         /\ Cardinality({p \in Reported : p[1] = k}) <= 1
    /\ Quick => \A k \in Universe : RowCount(k) <= 1
    /\ Deep =>
         \A i \in DOMAIN response.ret.buckets.differences :
           LET e == response.ret.buckets.differences[i]
           IN /\ e.golden = Strip(LastOf(response.docs_golden, e.feature).page_content)
              /\ e.candidate = Strip(LastOf(response.docs_candidate, e.feature).page_content)

(* the golden side returns two different documents for a key the candidate *)
(* side has too, and the key is reported                                   *)
C14_Witness ==
  /\ Quick \/ Deep
  /\ \E k \in GoldenKeys \cap CandidateKeys :
       /\ Cardinality(RawOf(response.docs_golden, k)) >= 2
       /\ \E p \in Reported : p[1] = k

-----------------------------------------------------------------------------
(* Failures inside compare_configs                                         *)

Failed == Called /\ response.ret.kind = "error"

(* C15: a compare_configs call always returns a dict.  When a search or    *)
(* the language model raised, the dict holds an error message as result,   *)
(* no source documents and latency 0.0, and nothing of what had been       *)
(* retrieved or classified before the failure; otherwise it holds all      *)
(* retrieved documents of both sides.                                      *)
C15_AtomicError ==
  Called =>
    /\ response.ret.kind \in {"table", "narrative", "error"}
    /\ Failed =>
         /\ response.ret.result \in {SearchRaised, LlmRaised}
         /\ response.ret.source_documents = <<>>
         /\ response.ret.latency = "0.0"
         /\ DOMAIN response.ret = {"kind", "result", "source_documents", "model", "latency"}
         /\ response.ret.result = LlmRaised => response.mode = "deep"
    /\ ~ Failed =>
         response.ret.source_documents = response.docs_golden \o response.docs_candidate

(* the candidate search raised after the golden search had returned        *)
(* documents, or the language model raised after both had                  *)
C15_Witness ==
  /\ Failed
  /\ response.docs_golden # <<>>
  /\ response.ret.source_documents = <<>>

-----------------------------------------------------------------------------
(* Scenario runs (test_all_scenarios.py): the chunk store is wiped, a      *)
(* golden and a candidate file are written and indexed, and the QUICK      *)
(* table is computed; then the candidate is edited by one stanza and the   *)
(* whole run is repeated.  A configuration is given as its stanzas, a      *)
(* stanza as its lines, header first.                                      *)

(* stanzas per candidate configuration *)
MaxStanzas == 2

Stanzas == {<<Vlan10, NameX>>, <<Vlan10, NameY>>, <<Vlan10, NameXsp>>, <<Vlan20>>}

BodyLines == {NameX, NameY, NameXsp}

GoldenScenarios ==
  {<< <<Vlan10, NameX>>, <<Vlan20>> >>,
   << <<Vlan10, NameX>> >>,
   << <<Vlan10, NameY>>, <<Vlan10, NameX>> >>}

CandidateScenarios == SeqsUpTo(Stanzas, MaxStanzas)

ScenarioQuery == <<"Compare", " ", "VLANs", " ", "Interfaces", " ", "Routes">>

(* the lines of a configuration *)
RECURSIVE LinesOf(_)
LinesOf(stanzas) ==
  IF stanzas = <<>> THEN <<>> ELSE Head(stanzas) \o LinesOf(Tail(stanzas))

(* the text written to the file *)
TextOf(stanzas) == JoinLines(LinesOf(stanzas))

(* The embedding gives a text the same distance to the query in every run: *)
(* the documents of a search come back ranked by their text, rank "up" or  *)
(* "down" standing for two of the rankings an embedding can induce.        *)
Rankings == {"up", "down"}

InRank(a, b, rank) ==
  \/ a = b
  \/ rank = "up" /\ StrLess(a, b)
  \/ rank = "down" /\ StrLess(b, a)

RankedRetrievals(store, role, filename, rank) ==
  {q \in Retrievals(store, role, filename) :
     \A i, j \in DOMAIN q : i < j => InRank(q[i].page_content, q[j].page_content, rank)}

(* the store after rmtree, process_file(golden.cfg), process_file(candidate.cfg) *)
ScenarioStore(golden, candidate) ==
  process_file(process_file(EmptyBag, <<"golden.cfg">>, "golden", TextOf(golden), TRUE).store,
               <<"candidate.cfg">>, "candidate", TextOf(candidate), TRUE).store

(* the tables bot.compare_configs(query) can return on that store *)
ScenarioTables(store, query, rank) ==
  {compare_configs(query, "quick", dg, dc, TRUE, "elapsed").result :
     dg \in RankedRetrievals(store, "golden", None, rank),
     dc \in RankedRetrievals(store, "candidate", None, rank)}

Removed(c, i) == SubSeq(c, 1, i - 1) \o SubSeq(c, i + 1, Len(c))

Added(c, i, s) == SubSeq(c, 1, i - 1) \o <<s>> \o SubSeq(c, i, Len(c))

Changed(c, i, j, line) == [c EXCEPT ![i][j] = line]

InitScenarios ==
  /\ response = Idle
  /\ vector_store = EmptyBag
  /\ redactor = Idle /\ parser = Idle /\ ingested = Idle /\ session = Idle

(* the first run of a scenario *)
BaselineOn(store, golden, candidate, rank) ==
  /\ response = Idle
  /\ vector_store' = store
  /\ \E table \in ScenarioTables(store, ScenarioQuery, rank) :
       response' = [pc |-> "baseline", golden |-> golden, candidate |-> candidate,
                    rank |-> rank, before |-> table]
  /\ UNCHANGED <<redactor, parser, ingested, session>>

Baseline(golden, candidate, rank) ==
  BaselineOn(ScenarioStore(golden, candidate), golden, candidate, rank)

(* the run repeated with the candidate edited; key is the header of the    *)
(* stanza the edit removed, added or changed                               *)
RerunOn(store, kind, key, edited) ==
  /\ response.pc = "baseline"
  /\ vector_store' = store
  /\ \E table \in ScenarioTables(store, ScenarioQuery, response.rank) :
       response' = [pc |-> "edited", golden |-> response.golden,
                    candidate |-> response.candidate, rank |-> response.rank,
                    before |-> response.before,
                    edit |-> kind, key |-> key, edited |-> edited, after |-> table]
  /\ UNCHANGED <<redactor, parser, ingested, session>>

Rerun_Edited(kind, key, edited) ==
  RerunOn(ScenarioStore(response.golden, edited), kind, key, edited)

RemoveStanza(i) ==
  /\ response.pc = "baseline"
  /\ i \in DOMAIN response.candidate
  /\ Rerun_Edited("remove", response.candidate[i][1], Removed(response.candidate, i))

AddStanza(i, s) ==
  /\ response.pc = "baseline"
  /\ i \in 1 .. Len(response.candidate) + 1
  /\ Rerun_Edited("add", s[1], Added(response.candidate, i, s))

ChangeBodyLine(i, j, line) ==
  /\ response.pc = "baseline"
  /\ i \in DOMAIN response.candidate
  /\ j \in 2 .. Len(response.candidate[i])
  /\ line # response.candidate[i][j]
  /\ Rerun_Edited("change", response.candidate[i][1], Changed(response.candidate, i, j, line))

NextScenarios ==
  \/ \E g \in GoldenScenarios, c \in CandidateScenarios, rank \in Rankings : Baseline(g, c, rank)
  \/ \E i \in 1 .. MaxStanzas : RemoveStanza(i)
  \/ \E i \in 1 .. MaxStanzas + 1, s \in Stanzas : AddStanza(i, s)
  \/ \E i \in 1 .. MaxStanzas, j \in 2 .. 2, line \in BodyLines : ChangeBodyLine(i, j, line)

SpecScenarios == InitScenarios /\ [][NextScenarios]_vars

-----------------------------------------------------------------------------
(* C16: locality of classification under one edit of the candidate *)

Edited == "pc" \in DOMAIN response /\ response.pc = "edited"

StatusIn(table, k) ==
  IF \E i \in DOMAIN table : table[i].key = k
  THEN table[CHOOSE i \in DOMAIN table : table[i].key = k].status
  ELSE "none"

TableKeys(table) == {table[i].key : i \in DOMAIN table}

OthersUnchanged ==
  \A k \in TableKeys(response.before) \cup TableKeys(response.after) :
    k # response.key => StatusIn(response.before, k) = StatusIn(response.after, k)

StanzasOf(config, k) == {i \in DOMAIN config : config[i][1] = k}

StanzaText(s) == Strip(JoinLines(s))

ExpectedAfter(edit) ==
  IF edit = "remove" THEN "MISSING" ELSE IF edit = "add" THEN "EXTRA" ELSE "DIFF"

-----------------------------------------------------------------------------
(* C17: golden and candidate ingested from the same text *)

GoldenFile == <<"golden", <<"golden.cfg">> >>

CandidateFile == <<"candidate", <<"candidate.cfg">> >>

DirtyFile == <<"candidate", <<"dirty.cfg">> >>

(* both files were read, with the same text, and the call compares them    *)
(* alone                                                                   *)
SameText ==
  /\ {GoldenFile, CandidateFile} \subseteq ingested.done
  /\ ingested.read[GoldenFile] # None
  /\ ingested.read[GoldenFile] = ingested.read[CandidateFile]
  /\ DirtyFile \in ingested.done => response.candidate_filename = "candidate.cfg"

SharedBlocks == parse(SplitLines(ingested.read[GoldenFile]), <<>>)

(* two stanzas of the text have the same header and bodies that differ *)
ConflictingHeaders ==
  \E i, j \in DOMAIN SharedBlocks :
    /\ SharedBlocks[i].parent_line = SharedBlocks[j].parent_line
    /\ Strip(SharedBlocks[i].full_text) # Strip(SharedBlocks[j].full_text)

AllMatch == \A i \in DOMAIN Rows : Rows[i].status = "MATCH"

(* C17 as stated: with golden and candidate ingested from the same text    *)
(* every QUICK row is MATCH, for every text and every retrieval order.     *)
C17_Original == Quick /\ SameText => AllMatch

(* C17: with golden and candidate ingested from the same text, in which no *)
(* two stanzas share a header while differing in body, every QUICK row is  *)
(* MATCH whatever order each side's blocks are retrieved in.               *)
C17_IdenticalMatch == Quick /\ SameText /\ ~ ConflictingHeaders => AllMatch

C17_Witness ==
  /\ Quick /\ SameText /\ ~ ConflictingHeaders
  /\ Len(Rows) >= 2
  /\ AllMatch

-----------------------------------------------------------------------------
(* C18: retrieval scoped by the file names of the call *)

Named == Called /\ response.golden_filename # None /\ response.candidate_filename # None

FromFile(doc, role, filename) ==
  doc.metadata.config_role = role /\ doc.metadata.source = filename

FromNamedFiles(docs) ==
  \A i \in DOMAIN docs :
    \/ FromFile(docs[i], "golden", response.golden_filename)
    \/ FromFile(docs[i], "candidate", response.candidate_filename)

StoredElsewhere ==
  {d \in BagToSet(vector_store) :
     /\ ~ FromFile(d, "golden", response.golden_filename)
     /\ ~ FromFile(d, "candidate", response.candidate_filename)}

(* C18: a call with explicit golden_filename and candidate_filename aligns *)
(* and returns only documents of role golden from golden_filename and of   *)
(* role candidate from candidate_filename; documents of any other file in  *)
(* the store are left out.                                                 *)
C18_FilenameScoped ==
  Named =>
    /\ \A i \in DOMAIN response.docs_golden :
         FromFile(response.docs_golden[i], "golden", response.golden_filename)
    /\ \A i \in DOMAIN response.docs_candidate :
         FromFile(response.docs_candidate[i], "candidate", response.candidate_filename)
    /\ FromNamedFiles(response.ret.source_documents)
    /\ \A d \in StoredElsewhere :
         /\ \A i \in DOMAIN response.ret.source_documents :
              response.ret.source_documents[i] # d
         /\ \A i \in DOMAIN response.docs_candidate : response.docs_candidate[i] # d
    /\ Quick => RowKeys \subseteq Universe

C18_Witness ==
  /\ Named /\ Quick
  /\ StoredElsewhere # {}
  /\ \E d \in StoredElsewhere : d.metadata.parent_line \notin Universe
  /\ response.docs_golden # <<>> /\ response.docs_candidate # <<>>
  /\ Len(response.ret.source_documents)
       = Len(response.docs_golden) + Len(response.docs_candidate)

-----------------------------------------------------------------------------
(* C19: has_secret of a block and the redaction of its own lines *)

(* the lines of the text a block was built from: numbers line_start to    *)
(* line_end (zero-based), the skipped ones left out                        *)
OwnLines(lines, block) ==
  {lines[n + 1] : n \in {m \in block.line_start .. block.line_end :
                           m < Len(lines) /\ ~ Skippable(lines[m + 1])}}

OwnLineAltered(lines, block) ==
  \E line \in OwnLines(lines, block) : _redact_line(line).line # line

(* C19: in the blocks of a first parse(), has_secret is true exactly when  *)
(* redaction altered the header or a body line of that block; a secret on  *)
(* the next block's header does not count.                                 *)
C19_HasSecretOwnLines ==
  \A i \in DOMAIN parser \cap Instances :
    Len(parser[i].returned) >= 1 =>
      \A k \in DOMAIN parser[i].returned[1] :
        parser[i].returned[1][k].has_secret
          <=> OwnLineAltered(parser[i].lines, parser[i].returned[1][k])

-----------------------------------------------------------------------------
(* C20: blank lines and comment lines in the parsed text *)

(* the text with its blank and comment lines removed *)
RECURSIVE WithoutSkippable(_)
WithoutSkippable(lines) ==
  IF lines = <<>> THEN <<>>
  ELSE (IF Skippable(Head(lines)) THEN <<>> ELSE <<Head(lines)>>)
       \o WithoutSkippable(Tail(lines))

(* what C20 compares of each block *)
BlockContents(blocks) ==
  [k \in DOMAIN blocks |-> [parent_line |-> blocks[k].parent_line,
                            children    |-> blocks[k].children,
                            full_text   |-> blocks[k].full_text,
                            has_secret  |-> blocks[k].has_secret]]

(* C20: a first parse() of a text returns blocks with the same parent_line, *)
(* body lines, full_text and has_secret as a parse of the text without its  *)
(* blank and comment lines, and no block when the text has no other line.   *)
C20_SkippedLines ==
  \A i \in DOMAIN parser \cap Instances :
    Len(parser[i].returned) >= 1 =>
      /\ BlockContents(parser[i].returned[1])
           = BlockContents(parse(WithoutSkippable(parser[i].lines), <<>>))
      /\ (\A n \in DOMAIN parser[i].lines : Skippable(parser[i].lines[n]))
           => parser[i].returned[1] = <<>>

C20_Witness ==
  \E i \in DOMAIN parser \cap Instances :
    /\ Len(parser[i].returned) >= 1
    /\ Len(parser[i].lines) = 3
    /\ ~ Skippable(parser[i].lines[1]) /\ ~ _is_child(parser[i].lines[1])
    /\ Skippable(parser[i].lines[2])
    /\ ~ Skippable(parser[i].lines[3]) /\ _is_child(parser[i].lines[3])
    /\ Len(parser[i].returned[1]) = 1
    /\ Len(parser[i].returned[1][1].children) = 1

-----------------------------------------------------------------------------
(* C21: the order of the blocks and their line_start *)

FirstParse(i) == parser[i].returned[1]

ParsedOnce == {i \in DOMAIN parser \cap Instances : Len(parser[i].returned) >= 1}

IsHeaderAt(lines, n, block) ==
  /\ n \in 0 .. Len(lines) - 1
  /\ ~ Skippable(lines[n + 1])
  /\ ~ _is_child(lines[n + 1])
  /\ _redact_line(lines[n + 1]).line = block.parent_line

(* C21: the blocks of a first parse() come in source order: line_start is  *)
(* strictly increasing along the sequence and is the zero-based index of   *)
(* the block's header line.                                                *)
C21_SourceOrder ==
  \A i \in ParsedOnce :
    /\ \A k, m \in DOMAIN FirstParse(i) :
         k < m => FirstParse(i)[k].line_start < FirstParse(i)[m].line_start
    /\ \A k \in DOMAIN FirstParse(i) :
         IsHeaderAt(parser[i].lines, FirstParse(i)[k].line_start, FirstParse(i)[k])

C21_Witness ==
  \E i \in ParsedOnce :
    /\ Len(FirstParse(i)) = 2
    /\ FirstParse(i)[1].line_start = 1
    /\ FirstParse(i)[2].line_start = 2

-----------------------------------------------------------------------------
(* Parser construction: NetworkConfigParser(content, filename) on texts    *)
(* that reach past the window of _detect_metadata.                         *)

(* lines that follow the leading lines of a text *)
MaxTail == 2

MetaLinePool ==
  {<<"hostname", " ", "x">>, <<"hostname", " ", "y", " ">>,
   <<" ", "hostname", " ", "x">>, <<"hostname", " ", "hostname", " ", "x">>,
   <<"Current", " ", "configuration", " ", ":", " ", "5">>, Vlan10}

Repeated(line, n) == [k \in 1 .. n |-> line]

(* leading lines: none, or a first line followed by "vlan 10" lines up to  *)
(* a length around the window                                              *)
LeadingLines ==
  {<<>>} \cup {<<first>> \o Repeated(Vlan10, n - 1) :
                 first \in {Vlan10, <<"hostname", " ", "y">>},
                 n \in {MetaWindow - 2, MetaWindow - 1, MetaWindow}}

MetaContents ==
  {JoinLines(lead \o tail) : lead \in LeadingLines, tail \in SeqsUpTo(MetaLinePool, MaxTail)}

InitMeta ==
  /\ parser = Idle
  /\ redactor = Idle /\ vector_store = EmptyBag /\ ingested = Idle /\ response = Idle
  /\ session = Idle

(* parser = NetworkConfigParser(content, filename), up to the call of      *)
(* _detect_metadata: self.lines is set and meta holds the defaults         *)
NewParser(content, filename) ==
  /\ parser = Idle
  /\ parser' = [pc |-> "detecting", filename |-> filename,
                lines |-> SplitLines(content), next |-> 1,
                metadata |-> MetaDefaults(filename)]
  /\ UNCHANGED <<redactor, vector_store, ingested, response, session>>

(* one pass of the loop of _detect_metadata *)
DetectNextLine ==
  /\ parser # Idle /\ parser.pc = "detecting"
  /\ InWindow(parser.lines, parser.next)
  /\ parser' = [parser EXCEPT !.metadata = DetectLine(@, parser.lines[parser.next]),
                              !.next = @ + 1]
  /\ UNCHANGED <<redactor, vector_store, ingested, response, session>>

(* the loop ends: "return meta", and __init__ returns *)
ReturnMeta ==
  /\ parser # Idle /\ parser.pc = "detecting"
  /\ ~ InWindow(parser.lines, parser.next)
  /\ parser' = [parser EXCEPT !.pc = "constructed"]
  /\ UNCHANGED <<redactor, vector_store, ingested, response, session>>

NextMeta ==
  \/ \E content \in MetaContents : NewParser(content, "golden.cfg")
  \/ DetectNextLine
  \/ ReturnMeta

SpecMeta == InitMeta /\ [][NextMeta]_vars

-----------------------------------------------------------------------------
(* C22: metadata detection and its window of 50 lines *)

Constructed == parser # Idle /\ parser.pc = "constructed"

HostnameLines(lines) ==
  {n \in DOMAIN lines : n <= 50 /\ StartsWith(lines[n], <<"hostname", " ">>)}

LastHostnameLine(lines) ==
  lines[CHOOSE n \in HostnameLines(lines) : \A m \in HostnameLines(lines) : m <= n]

BannerLines(lines) ==
  {n \in DOMAIN lines :
     n <= 50 /\ Contains(lines[n], <<"Current", " ", "configuration", " ", ":">>)}

(* C22: the hostname of a constructed parser is taken from the last of the *)
(* first 50 lines that starts with "hostname ", it is "unknown" when there *)
(* is none, no line after the 50th is read, and the vendor too is decided  *)
(* by the first 50 lines alone.                                            *)
C22_MetadataWindow ==
  Constructed =>
    /\ HostnameLines(parser.lines) # {}
         => parser.metadata.hostname
              = Strip(SplitSecond(LastHostnameLine(parser.lines), <<"hostname", " ">>))
    /\ HostnameLines(parser.lines) = {} => parser.metadata.hostname = <<"unknown">>
    /\ parser.next <= 51
    /\ parser.metadata.vendor = (IF BannerLines(parser.lines) # {} THEN "cisco" ELSE "unknown")

C22_Witness ==
  /\ Constructed
  /\ Len(parser.lines) = 52
  /\ parser.lines[1] = <<"hostname", " ", "y">>
  /\ parser.lines[51] = <<"hostname", " ", "x">>
  /\ Contains(parser.lines[52], <<"Current", " ", "configuration", " ", ":">>)
  /\ parser.next = 51
  /\ parser.metadata.hostname = <<"y">>
  /\ parser.metadata.vendor = "unknown"

-----------------------------------------------------------------------------
(* C23: process_file on a file that cannot be read *)

(* the file a step has processed *)
JustProcessed == ingested'.done \ ingested.done

Unread(p) == ingested'.read[p] = None

DocumentsRead(p) == Documents(ingested'.read[p], Basename(p[2]), p[1])

ProcessOutcome(p) ==
  IF Unread(p)
  THEN /\ ingested'.returned = FALSE
       /\ vector_store' = vector_store
  ELSE \/ /\ ingested'.returned = FALSE
          /\ DocumentsRead(p) = <<>>
          /\ vector_store' = vector_store
       \/ /\ ingested'.returned = TRUE
          /\ DocumentsRead(p) # <<>>
          /\ vector_store' = vector_store (+) BagOfSeq(DocumentsRead(p))

(* C23: a process_file call on a file that cannot be read returns False    *)
(* and leaves the store as it was; a call on a file that was read adds     *)
(* either nothing or, in one step, the documents of all its blocks.        *)
C23_ReadFailure ==
  [][\A p \in JustProcessed : ProcessOutcome(p)]_vars

C23_Witness ==
  /\ "returned" \in DOMAIN ingested
  /\ ingested.returned = FALSE
  /\ ingested.done = {GoldenFile, CandidateFile}
  /\ ingested.read[CandidateFile] = None
  /\ ingested.read[GoldenFile] # None
  /\ vector_store # EmptyBag

-----------------------------------------------------------------------------
(* C24: the structure of a block *)

IsHeader(line) == ~ Skippable(line) /\ ~ _is_child(line)

(* zero-based indices of the header lines of a text *)
HeaderIndices(lines) == {n \in 0 .. Len(lines) - 1 : IsHeader(lines[n + 1])}

(* the index of the first header after line h, or the number of lines *)
NextHeaderAfter(lines, h) ==
  IF \E n \in HeaderIndices(lines) : n > h
  THEN CHOOSE n \in HeaderIndices(lines) :
         n > h /\ \A m \in HeaderIndices(lines) : m > h => n <= m
  ELSE Len(lines)

(* the redacted non-skipped lines after header h up to the next header *)
BodyAfter(lines, h) == KeptLines(SubSeq(lines, h + 2, NextHeaderAfter(lines, h)))

(* C24: in the blocks of a first parse(), parent_line is the redacted form *)
(* of a line that does not start with a space or tab, the body is the      *)
(* redacted non-skipped lines between that header and the next header or   *)
(* the end of the text, in order and all indented, and full_text is the    *)
(* parent_line and the body lines joined by newlines; every header line    *)
(* heads one block.                                                        *)
C24_BlockStructure ==
  \A i \in ParsedOnce :
    /\ {FirstParse(i)[k].line_start : k \in DOMAIN FirstParse(i)}
         = HeaderIndices(parser[i].lines)
    /\ Len(FirstParse(i)) = Cardinality(HeaderIndices(parser[i].lines))
    /\ \A k \in DOMAIN FirstParse(i) :
         /\ IsHeaderAt(parser[i].lines, FirstParse(i)[k].line_start, FirstParse(i)[k])
         /\ FirstParse(i)[k].children
              = BodyAfter(parser[i].lines, FirstParse(i)[k].line_start)
         /\ \A n \in FirstParse(i)[k].line_start + 1
                      .. NextHeaderAfter(parser[i].lines, FirstParse(i)[k].line_start) - 1 :
              Skippable(parser[i].lines[n + 1]) \/ _is_child(parser[i].lines[n + 1])
         /\ FirstParse(i)[k].full_text
              = JoinLines(<<FirstParse(i)[k].parent_line>> \o FirstParse(i)[k].children)

C24_Witness ==
  \E i \in ParsedOnce :
    /\ Len(FirstParse(i)) = 1
    /\ FirstParse(i)[1].parent_line = <<"password", " ", "7", " ", "[", "REDACTED", "]">>
    /\ FirstParse(i)[1].children = << <<" ", "key", " ", "[", "REDACTED", "]">> >>
    /\ Len(parser[i].lines) = 3

-----------------------------------------------------------------------------
(* C25: the short circuit over a sequence of uploads *)

(* C25: the identical-configurations answer is given only when the golden  *)
(* and the candidate file currently uploaded have the same bytes.          *)
(* A failed upload leaves the role's earlier hash in the session, so the    *)
(* comparison is made between hashes of files no longer in the uploaders.  *)
C25_ShortCircuitOnlyIfIdentical ==
  /\ Requested /\ ShortCircuited
  /\ response.golden_file # NoFile /\ response.candidate_file # NoFile
  => ByteIdentical

-----------------------------------------------------------------------------
(* C26: the filenames a dispatched comparison is called with *)

DispatchedCall ==
  Requested /\ response.via = "dispatch" /\ response.call # NoCall

(* some block of the store was indexed under the role from that file *)
IndexedUnder(role, filename) ==
  \E d \in BagToSet(vector_store) :
    d.metadata.config_role = role /\ d.metadata.source = filename

(* C26: a comparison dispatched with a golden or candidate filename of the *)
(* session finds at least one block indexed under that role with that      *)
(* filename as its source.                                                 *)
C26_DispatchedFilenameIndexed ==
  DispatchedCall =>
    /\ response.call[1].golden_filename # None
         => IndexedUnder("golden", response.call[1].golden_filename)
    /\ response.call[1].candidate_filename # None
         => IndexedUnder("candidate", response.call[1].candidate_filename)

-----------------------------------------------------------------------------
(* C27: a file replaced by another of the same name *)

(* the documents process_file builds from an uploaded file *)
UploadedDocuments(file, role) ==
  LET docs == Documents(Decode(file.bytes), clean_filename(file.name), role)
  IN {docs[k] : k \in DOMAIN docs}

(* the comparison was called for the file now in the role's uploader *)
CalledFor(file, filename, hash) ==
  /\ file # NoFile
  /\ filename = clean_filename(file.name)
  /\ hash = compute_file_hash(file.bytes)

OnlyFrom(docs, file, role) ==
  \A i \in DOMAIN docs : docs[i] \in UploadedDocuments(file, role)

(* C27: once a file of a role has been replaced by a file of the same name *)
(* and other content, a comparison aligns only blocks of the new content.  *)
C27_OnlyNewContent ==
  DispatchedCall =>
    /\ CalledFor(response.golden_file, response.call[1].golden_filename,
                 response.golden_hash)
         => OnlyFrom(response.call[1].docs_golden, response.golden_file, "golden")
    /\ CalledFor(response.candidate_file, response.call[1].candidate_filename,
                 response.candidate_hash)
         => OnlyFrom(response.call[1].docs_candidate, response.candidate_file,
                     "candidate")

-----------------------------------------------------------------------------
(* C28: the line span of a block *)

(* C28: in the blocks of a first parse() of n lines, line_start and        *)
(* line_end are zero-based line indices with line_start <= line_end        *)
(* <= n - 1, and a block ends before the next block starts.                *)
C28_LineSpan ==
  \A i \in ParsedOnce :
    \A k \in DOMAIN FirstParse(i) :
      /\ 0 <= FirstParse(i)[k].line_start
      /\ FirstParse(i)[k].line_start <= FirstParse(i)[k].line_end
      /\ FirstParse(i)[k].line_end <= Len(parser[i].lines) - 1
      /\ k < Len(FirstParse(i))
           => FirstParse(i)[k].line_end < FirstParse(i)[k + 1].line_start

-----------------------------------------------------------------------------
(* C29: shared authentication keys *)

Redacted == redactor # Idle /\ redactor.pc \in {"once", "twice"}

Atoms(s) == {s[j] : j \in DOMAIN s}

(* the line ends in the literal lit followed by the token t; t occurs      *)
(* nowhere else in the line and the word key only in lit                   *)
EndsInKey(line, lit, t) ==
  /\ Len(line) >= Len(lit) + 1
  /\ SubSeq(line, Len(line) - Len(lit), Len(line)) = lit \o <<t>>
  /\ t \in AlNum \ {"REDACTED"}
  /\ t \notin Atoms(SubSeq(line, 1, Len(line) - 1))
  /\ "key" \notin Atoms(SubSeq(line, 1, Len(line) - Len(lit) - 1))

KeyTokenMasked(lit) ==
  \A t \in AlNum :
    EndsInKey(redactor.line, lit, t) => t \notin Atoms(redactor.first.line)

(* C29: the token of a line "<prefix>key 7 <token>" and of a line          *)
(* "<prefix>key <token>" is absent from the redacted line.                 *)
C29_KeysMasked ==
  Redacted =>
    /\ KeyTokenMasked(<<"key", " ", "7", " ">>)
    /\ KeyTokenMasked(<<"key", " ">>)

-----------------------------------------------------------------------------
(* C30: the order in which the store returns the blocks *)

NoSharedParent(docs) ==
  \A i, j \in DOMAIN docs :
    docs[i].metadata.parent_line = docs[j].metadata.parent_line => i = j

(* what a comparison reports: the rows of the table, or the buckets *)
ReportOf(ret) ==
  IF ret.kind = "table" THEN ret.result
  ELSE IF ret.kind = "narrative" THEN ret.buckets
  ELSE ret.kind

(* the report of the same call had the searches returned pg and pc *)
ReportOn(pg, pc) ==
  ReportOf(compare_configs(response.query, response.mode, pg, pc, TRUE, "elapsed"))

OrderIndependent ==
  \A pg \in Arrangements(BagOfSeq(response.docs_golden)),
     pc \in Arrangements(BagOfSeq(response.docs_candidate)) :
    ReportOn(pg, pc) = ReportOf(response.ret)

Unambiguous ==
  NoSharedParent(response.docs_golden) /\ NoSharedParent(response.docs_candidate)

(* C30: when no two blocks of a side share a parent_line, every order of   *)
(* the golden and of the candidate blocks gives the same QUICK rows and    *)
(* the same DEEP buckets, in the same order, as the order retrieved.       *)
C30_OrderIndependent ==
  (Quick \/ Deep) /\ Unambiguous => OrderIndependent

(* a table of two rows from two blocks on either side *)
C30_Witness ==
  /\ Quick /\ Unambiguous
  /\ Len(response.docs_golden) >= 2 /\ Len(response.docs_candidate) >= 2
  /\ Len(Rows) >= 2
  /\ \E i, j \in DOMAIN Rows : Rows[i].status # Rows[j].status

====
